---- MODULE Spec2Model ----
(***************************************************************************)
(* Session classification and completion-confidence engine of             *)
(* claude-usage-analyzer/scripts/analyze_sessions.py.                     *)
(*                                                                         *)
(* Conventions of the model                                                *)
(*  - Python strings are TLA+ strings; the character at position i of s   *)
(*    is SubSeq(s, i, i).                                                  *)
(*  - A value that may be None is a sequence of length <= 1: <<>> is None *)
(*    and <<v>> is the value v.  A key that is absent reads as the        *)
(*    default of its .get(), so it is the same input as that default.     *)
(*  - Durations are floats in the source (minutes).  The model counts     *)
(*    them in tenths of a minute; Minutes(n) is the source's literal n.   *)
(***************************************************************************)
EXTENDS Integers, Sequences, FiniteSets, TLC

VARIABLES pc, session, analysis, args, ret

vars == <<pc, session, analysis, args, ret>>

None == <<>>
Some(v) == <<v>>
IsNone(o) == Len(o) = 0
Truthy(o) == Len(o) > 0 /\ o[1] # ""
OrElse(o, d) == IF Len(o) = 0 THEN d ELSE o[1]

Minutes(n) == n * 10

(***************************************************************************)
(* Text primitives: str.lower, " ".join, the `in` substring test and      *)
(* re.search for the pattern constructs the source uses.                  *)
(***************************************************************************)
CharAt(s, i) == SubSeq(s, i, i)

UpperToLower ==
    ("A" :> "a") @@ ("B" :> "b") @@ ("C" :> "c") @@ ("D" :> "d") @@
    ("E" :> "e") @@ ("F" :> "f") @@ ("G" :> "g") @@ ("H" :> "h") @@
    ("I" :> "i") @@ ("J" :> "j") @@ ("K" :> "k") @@ ("L" :> "l") @@
    ("M" :> "m") @@ ("N" :> "n") @@ ("O" :> "o") @@ ("P" :> "p") @@
    ("Q" :> "q") @@ ("R" :> "r") @@ ("S" :> "s") @@ ("T" :> "t") @@
    ("U" :> "u") @@ ("V" :> "v") @@ ("W" :> "w") @@ ("X" :> "x") @@
    ("Y" :> "y") @@ ("Z" :> "z")

LowerChar(c) == IF c \in DOMAIN UpperToLower THEN UpperToLower[c] ELSE c

RECURSIVE LowerFrom(_, _)
LowerFrom(s, i) ==
    IF i > Len(s) THEN "" ELSE LowerChar(CharAt(s, i)) \o LowerFrom(s, i + 1)

Lower(s) == LowerFrom(s, 1)

RECURSIVE JoinFrom(_, _, _)
JoinFrom(strs, sep, i) ==
    IF i > Len(strs) THEN ""
    ELSE IF i = Len(strs) THEN strs[i]
    ELSE strs[i] \o sep \o JoinFrom(strs, sep, i + 1)

Join(strs, sep) == JoinFrom(strs, sep, 1)

\* Python `w in text` for strings
Contains(text, w) ==
    \E i \in 1..(Len(text) - Len(w) + 1) : SubSeq(text, i, i + Len(w) - 1) = w

\* any(word in text for word in words)
AnyIn(words, text) == \E k \in 1..Len(words) : Contains(text, words[k])

WordChars ==
    {"a","b","c","d","e","f","g","h","i","j","k","l","m","n","o","p","q","r",
     "s","t","u","v","w","x","y","z","0","1","2","3","4","5","6","7","8","9",
     "_"} \cup DOMAIN UpperToLower

SpaceChars == {" ", "\t", "\n", "\r"}

IsWordAt(s, i) == i >= 1 /\ i <= Len(s) /\ CharAt(s, i) \in WordChars

\* Pattern elements: a literal, \b, \s+, \s*, c? and .*
Lit(v) == [k |-> "lit", v |-> v]
WB == [k |-> "b", v |-> ""]
WsPlus == [k |-> "s+", v |-> ""]
WsStar == [k |-> "s*", v |-> ""]
Opt(c) == [k |-> "opt", v |-> c]
AnyStar == [k |-> "any*", v |-> ""]

RECURSIVE MatchHere(_, _, _, _)
MatchHere(p, k, s, j) ==
    IF k > Len(p) THEN TRUE
    ELSE LET e == p[k] IN
      CASE e.k = "lit" ->
             /\ j + Len(e.v) - 1 <= Len(s)
             /\ SubSeq(s, j, j + Len(e.v) - 1) = e.v
             /\ MatchHere(p, k + 1, s, j + Len(e.v))
        [] e.k = "b" ->
             /\ IsWordAt(s, j - 1) # IsWordAt(s, j)
             /\ MatchHere(p, k + 1, s, j)
        [] e.k = "s+" ->
             \E n \in 1..(Len(s) - j + 1) :
                /\ \A m \in j..(j + n - 1) : CharAt(s, m) \in SpaceChars
                /\ MatchHere(p, k + 1, s, j + n)
        [] e.k = "s*" ->
             \E n \in 0..(Len(s) - j + 1) :
                /\ \A m \in j..(j + n - 1) : CharAt(s, m) \in SpaceChars
                /\ MatchHere(p, k + 1, s, j + n)
        [] e.k = "opt" ->
             \/ MatchHere(p, k + 1, s, j)
             \/ /\ j <= Len(s)
                /\ CharAt(s, j) = e.v
                /\ MatchHere(p, k + 1, s, j + 1)
        [] e.k = "any*" ->
             \E n \in 0..(Len(s) - j + 1) :
                /\ \A m \in j..(j + n - 1) : CharAt(s, m) # "\n"
                /\ MatchHere(p, k + 1, s, j + n)

\* re.search(pattern, s)
re_search(p, s) == \E j \in 1..(Len(s) + 1) : MatchHere(p, 1, s, j)

\* any(re.search(pat, s) for pat in patterns)
AnyPattern(patterns, s) == \E k \in 1..Len(patterns) : re_search(patterns[k], s)

\* \bword\b
Word(w) == <<WB, Lit(w), WB>>
\* \bw1\s+w2\b
Words2(w1, w2) == <<WB, Lit(w1), WsPlus, Lit(w2), WB>>
\* \bw1\s*w2\b
Words2Opt(w1, w2) == <<WB, Lit(w1), WsStar, Lit(w2), WB>>

(***************************************************************************)
(* The prompt lists and command lists the model explores.  The scans of   *)
(* these texts are tabulated once (the ...Memo functions below); a memo   *)
(* entry is by definition the value of the operator it tabulates.         *)
(***************************************************************************)
MaxPrompts == 2

\* Single prompts; the comment names the keyword lists each one meets.
PromptPool ==
    { "hello there",              \* none
      "Fix the failing test",     \* bug_fix, testing
      "explain why it logs",      \* exploration, debug
      "stop, this is wrong",      \* none (frustration)
      "still broken",             \* bug_fix (frustration)
      "add a button",             \* feature
      "rename the module",        \* refactor
      "where is main",            \* lookup
      "trace the call",           \* debug
      "run pytest",               \* testing
      "tweak yaml",               \* config, update
      "improve speed",            \* review ("pr"), refactor
      "update the readme" }       \* update

RECURSIVE SeqsUpTo(_, _)
SeqsUpTo(S, n) ==
    IF n = 0 THEN { <<>> }
    ELSE LET shorter == SeqsUpTo(S, n - 1)
         IN  shorter \cup { Append(q, x) : q \in shorter, x \in S }

\* initial_prompts of the records classify_task_type is called with
PromptLists == SeqsUpTo(PromptPool, MaxPrompts)

\* initial_prompts of the session records of the main loop
SessionPromptLists ==
    { <<>>,
      <<"hello there">>,
      <<"Fix the failing test">>,
      <<"explain why it logs">>,
      <<"stop, this is wrong">>,
      <<"add a button", "still broken">>,
      <<"rename the module">>,
      <<"where is main">> }

\* commands_sample of the session records of the main loop
SessionCommandLists ==
    { <<>>,
      <<"npm test">>,
      <<"git add . && git commit -m wip", "git push">>,
      <<"git commit -m 'fix' error: hook failed">>,
      <<"make all", "cannot open file", "build failed">> }

\* four commands that each hold an error pattern
ErrorCommandLists ==
    { <<"error one", "test failed", "access denied", "file not found">> }

CommandLists ==
    SessionCommandLists \cup ErrorCommandLists \cup
    { <<"git status">> }

(***************************************************************************)
(* classify_git_operations                                                *)
(***************************************************************************)
git_commit_pattern == Words2("git", "commit")
git_push_pattern == Words2("git", "push")
git_add_pattern == Words2("git", "add")

read_only_patterns ==
    << Words2("git", "status"), Words2("git", "log"), Words2("git", "diff"),
       Words2("git", "branch"), Words2("git", "show"), Words2("git", "remote"),
       Words2("git", "fetch"), Words2("git", "ls-files"),
       Words2("git", "rev-parse") >>

IsGitCommand(cmd) == Contains(Lower(cmd), "git")

IsCommitCommand(cmd) == re_search(git_commit_pattern, Lower(cmd))

\* the failure test of a commit command reduced to the word "abort"
IsFailedCommitCommand_abort_only(cmd) ==
    /\ IsCommitCommand(cmd)
    /\ Contains(Lower(cmd), "abort")

\* lines 174-179
IsFailedCommitCommand(cmd) ==
    /\ IsCommitCommand(cmd)
    /\ \/ Contains(Lower(cmd), "error")
       \/ Contains(Lower(cmd), "fail")
       \/ Contains(Lower(cmd), "abort")

\* read_only without the reset for an empty git_commands
read_only_of_vacuous(git_commands) ==
    \A i \in 1..Len(git_commands) : AnyPattern(read_only_patterns, Lower(git_commands[i]))

\* lines 189-210: every collected command is a read-only one, and there is one
read_only_of(git_commands) ==
    /\ \A i \in 1..Len(git_commands) : AnyPattern(read_only_patterns, Lower(git_commands[i]))
    /\ Len(git_commands) # 0

classify_git_operations(commands) ==
    LET git_commands == SelectSeq(commands, IsGitCommand)
        G == 1..Len(git_commands)
    IN  [ has_commit |-> \E i \in G : IsCommitCommand(git_commands[i]),
          has_push |-> \E i \in G : re_search(git_push_pattern, Lower(git_commands[i])),
          has_add |-> \E i \in G : re_search(git_add_pattern, Lower(git_commands[i])),
          read_only |-> read_only_of(git_commands),
          has_failed_commit |-> \E i \in G : IsFailedCommitCommand(git_commands[i]),
          commit_count |-> Len(SelectSeq(git_commands, IsCommitCommand)),
          git_commands |-> git_commands ]

GitOpsMemo == [c \in CommandLists |-> classify_git_operations(c)]

git_operations_of(commands) ==
    IF commands \in DOMAIN GitOpsMemo THEN GitOpsMemo[commands]
    ELSE classify_git_operations(commands)

(***************************************************************************)
(* classify_session_type                                                  *)
(***************************************************************************)
write_tools == {"Edit", "Write", "NotebookEdit"}

\* the classifier with NotebookEdit left out of the write tools
classify_session_type_two_write_tools(duration_minutes, tool_calls, has_edits, tools_used) ==
    IF has_edits THEN "work"
    ELSE IF duration_minutes >= Minutes(5) THEN "work"
    ELSE IF tool_calls >= 10 THEN "work"
    ELSE IF tools_used \cap {"Edit", "Write"} # {} THEN "work"
    ELSE "lookup"

classify_session_type(duration_minutes, tool_calls, has_edits, tools_used) ==
    IF has_edits THEN "work"
    ELSE IF duration_minutes >= Minutes(5) THEN "work"
    ELSE IF tool_calls >= 10 THEN "work"
    ELSE IF tools_used \cap write_tools # {} THEN "work"
    ELSE "lookup"

(***************************************************************************)
(* classify_task_type                                                     *)
(***************************************************************************)
bug_fix_words ==
    << "bug", "fix", "error", "issue", "broken", "doesn't work", "not working",
       "failing", "crash", "exception", "resolve", "patch" >>

testing_words ==
    << "test", "spec", "e2e", "unit test", "integration test", "coverage",
       "assertion", "mock", "stub", "jest", "pytest", "testing" >>

config_words ==
    << "config", "setup", "install", "terraform", "infra", "infrastructure",
       "deploy", "ci", "cd", "pipeline", "docker", "kubernetes", "k8s",
       "environment", "env", "yaml", "json config" >>

review_words ==
    << "review", "pr", "pull request", "code review", "feedback",
       "approve", "merge", "diff", "changes" >>

exploration_words ==
    << "explain", "what is", "how does", "document", "learn",
       "describe", "tell me about", "help me understand" >>

debug_words ==
    << "debug", "investigate", "why", "understand", "trace", "log",
       "what's happening", "look into", "figure out", "diagnose" >>

refactor_words ==
    << "refactor", "clean", "improve", "optimize", "restructure",
       "reorganize", "simplify", "rename", "extract", "consolidate" >>

feature_words ==
    << "add", "create", "implement", "new feature", "build", "introduce",
       "develop", "make", "generate", "design" >>

update_words ==
    << "update", "change", "modify", "edit", "adjust", "tweak",
       "alter", "revise", "enhance", "upgrade", "migrate" >>

lookup_words ==
    << "find", "search", "locate", "where", "show me", "list",
       "get", "fetch", "check", "verify", "validate", "confirm" >>

\* all_text = " ".join(str(p) for p in prompts).lower()
AllText(prompts) == Lower(Join(prompts, " "))

\* the chain with the testing list tested before the bug_fix list
keyword_task_type_testing_first(all_text) ==
    IF AnyIn(testing_words, all_text) THEN "testing"
    ELSE IF AnyIn(bug_fix_words, all_text) THEN "bug_fix"
    ELSE IF AnyIn(config_words, all_text) THEN "config"
    ELSE IF AnyIn(review_words, all_text) THEN "review"
    ELSE IF AnyIn(exploration_words, all_text) THEN "exploration"
    ELSE IF AnyIn(debug_words, all_text) THEN "debug"
    ELSE IF AnyIn(refactor_words, all_text) THEN "refactor"
    ELSE IF AnyIn(feature_words, all_text) THEN "feature"
    ELSE IF AnyIn(update_words, all_text) THEN "update"
    ELSE IF AnyIn(lookup_words, all_text) THEN "lookup"
    ELSE ""

\* The chain of keyword tests, lines 379-448; "" when no list matches.
keyword_task_type(all_text) ==
    IF AnyIn(bug_fix_words, all_text) THEN "bug_fix"
    ELSE IF AnyIn(testing_words, all_text) THEN "testing"
    ELSE IF AnyIn(config_words, all_text) THEN "config"
    ELSE IF AnyIn(review_words, all_text) THEN "review"
    ELSE IF AnyIn(exploration_words, all_text) THEN "exploration"
    ELSE IF AnyIn(debug_words, all_text) THEN "debug"
    ELSE IF AnyIn(refactor_words, all_text) THEN "refactor"
    ELSE IF AnyIn(feature_words, all_text) THEN "feature"
    ELSE IF AnyIn(update_words, all_text) THEN "update"
    ELSE IF AnyIn(lookup_words, all_text) THEN "lookup"
    ELSE ""

\* the lookup shape with `duration <= 5`
is_likely_lookup_inclusive(duration, tool_calls, has_edits) ==
    /\ ~IsNone(duration)
    /\ duration[1] <= Minutes(5)
    /\ ~OrElse(has_edits, FALSE)
    /\ OrElse(tool_calls, 0) < 10

\* duration, tool_calls and has_edits are Optional in the signature.
is_likely_lookup(duration, tool_calls, has_edits) ==
    /\ ~IsNone(duration)
    /\ duration[1] < Minutes(5)
    /\ ~OrElse(has_edits, FALSE)
    /\ OrElse(tool_calls, 0) < 10

KeywordTypeMemo == [ps \in PromptLists |-> keyword_task_type(AllText(ps))]

keyword_task_type_of(prompts) ==
    IF prompts \in DOMAIN KeywordTypeMemo THEN KeywordTypeMemo[prompts]
    ELSE keyword_task_type(AllText(prompts))

classify_task_type(prompts, commands, tools, duration, tool_calls, has_edits) ==
    LET by_keyword == keyword_task_type_of(prompts)
    IN  IF by_keyword # "" THEN by_keyword
        ELSE IF is_likely_lookup(duration, tool_calls, has_edits) THEN "lookup"
        ELSE "general"

(***************************************************************************)
(* detect_issues and detect_failure_signals.  A signal or an issue is     *)
(* modelled by its type (and severity); description and evidence are      *)
(* formatted text that no decision reads.                                 *)
(***************************************************************************)
IsErrorOrFailCommand(cmd) ==
    Contains(Lower(cmd), "error") \/ Contains(Lower(cmd), "fail")

RECURSIVE command_error_issues(_, _)
command_error_issues(commands, i) ==
    IF i > Len(commands) THEN <<>>
    ELSE (IF IsErrorOrFailCommand(commands[i])
          THEN << [type |-> "command_error"] >> ELSE <<>>)
         \o command_error_issues(commands, i + 1)

CommandIssuesMemo == [c \in CommandLists |-> command_error_issues(c, 1)]

command_error_issues_of(commands) ==
    IF commands \in DOMAIN CommandIssuesMemo THEN CommandIssuesMemo[commands]
    ELSE command_error_issues(commands, 1)

\* duration is read without `or 0` here: a None duration reaches `duration < 5`
detect_issues_raises(s) == IsNone(s.metadata.duration_minutes)

detect_issues(s) ==
    LET commands == s.task_context.commands_sample
        tool_count == s.statistics.tool_call_count
        user_msgs == s.statistics.user_messages
        duration == s.metadata.duration_minutes[1]
        total_turns == s.statistics.total_turns
    IN  command_error_issues_of(commands)
        \o (IF user_msgs > 0 /\ tool_count > 10 * user_msgs
            THEN << [type |-> "high_tool_usage"] >> ELSE <<>>)
        \o (IF duration < Minutes(5) /\ total_turns > 20
            THEN << [type |-> "rapid_interactions"] >> ELSE <<>>)

error_patterns ==
    << Word("error"), Word("failed"), Word("failure"), Word("exception"),
       Word("crash"), Word("timeout"), Word("denied"), Word("forbidden"),
       Word("not found"), Word("cannot"), Word("unable to") >>

frustration_patterns ==
    << Words2Opt("never", "mind"), Words2Opt("forget", "it"),
       Words2Opt("give", "up"),
       <<WB, Lit("doesn"), Opt("'"), Lit("t"), WsStar, Lit("work"), WB>>,
       Words2Opt("not", "working"), Word("stop"), Word("cancel"),
       Word("abort"), Word("wrong"), Word("broken"), Word("undo"),
       Word("revert"), Words2Opt("try", "again"), Words2Opt("still", "broken") >>

IsErrorCommand(cmd) == AnyPattern(error_patterns, Lower(cmd))

IsFrustratedPrompt(prompt) == AnyPattern(frustration_patterns, Lower(prompt))

ErrorCommandsMemo == [c \in CommandLists |-> SelectSeq(c, IsErrorCommand)]

error_commands_of(commands) ==
    IF commands \in DOMAIN ErrorCommandsMemo THEN ErrorCommandsMemo[commands]
    ELSE SelectSeq(commands, IsErrorCommand)

FrustrationMemo == [ps \in PromptLists |-> SelectSeq(ps, IsFrustratedPrompt)]

frustration_found_of(prompts) ==
    IF prompts \in DOMAIN FrustrationMemo THEN FrustrationMemo[prompts]
    ELSE SelectSeq(prompts, IsFrustratedPrompt)

MinOf(a, b) == IF a < b THEN a ELSE b
MaxOf(a, b) == IF a > b THEN a ELSE b

Signal(type, severity) == [type |-> type, severity |-> severity]

\* the test of signal 3a with `duration <= 2`
quick_abandonment_fires_inclusive(duration, tool_count) ==
    duration <= Minutes(2) /\ tool_count > 5

\* signal 3a, line 890
quick_abandonment_fires(duration, tool_count) ==
    duration < Minutes(2) /\ tool_count > 5

\* the severity of signal 1 without its limit of 3
error_severity_uncapped(error_commands) == Len(error_commands)

\* severity = min(3, len(error_commands)), line 870
error_severity(error_commands) == MinOf(3, Len(error_commands))

detect_failure_signals(s) ==
    LET commands == s.task_context.commands_sample
        prompts == s.task_context.initial_prompts
        tools_used == s.statistics.tools_used
        tool_count == s.statistics.tool_call_count
        user_msgs == s.statistics.user_messages
        duration == OrElse(s.metadata.duration_minutes, 0)
        error_commands == error_commands_of(commands)
        has_reads == {"Read", "Grep", "Glob"} \cap tools_used # {}
        has_edits == {"Edit", "Write"} \cap tools_used # {}
        git_ops == git_operations_of(commands)
        frustration_found == frustration_found_of(prompts)
    IN  (IF Len(error_commands) > 0
         THEN << Signal("error_in_commands", error_severity(error_commands)) >>
         ELSE <<>>)
        \o (IF user_msgs > 0 /\ tool_count > 0 /\ tool_count > 15 * user_msgs
            THEN << Signal("high_retry_ratio", 2) >> ELSE <<>>)
        \o (IF quick_abandonment_fires(duration, tool_count)
            THEN << Signal("quick_abandonment", 2) >> ELSE <<>>)
        \o (IF has_reads /\ ~has_edits /\ tool_count > 10
            THEN << Signal("read_without_edit", 1) >> ELSE <<>>)
        \o (IF git_ops.has_failed_commit
            THEN << Signal("failed_git_commit", 2) >> ELSE <<>>)
        \o (IF Len(frustration_found) > 0
            THEN << Signal("user_frustration", 2) >> ELSE <<>>)
        \o (IF duration > Minutes(5) /\ ~has_edits /\ ~git_ops.has_commit
               /\ tool_count > 10
            THEN << Signal("no_tangible_output", 1) >> ELSE <<>>)

HasSignal(failure_signals, types) ==
    \E i \in 1..Len(failure_signals) : failure_signals[i].type \in types

(***************************************************************************)
(* evaluate_task_completion                                               *)
(***************************************************************************)
test_patterns ==
    << Word("test"), Word("pytest"), Word("jest"), Words2("npm", "test"),
       Words2("yarn", "test"), <<WB, Lit("gradle"), AnyStar, Lit("test"), WB>> >>

\* the test scan reduced to the runners pytest and jest
IsTestCommand_runner_only(cmd) == AnyPattern(<<Word("pytest"), Word("jest")>>, Lower(cmd))

IsTestCommand(cmd) == AnyPattern(test_patterns, Lower(cmd))

HasTestRun(commands) == \E i \in 1..Len(commands) : IsTestCommand(commands[i])

TestRunMemo == [c \in CommandLists |-> HasTestRun(c)]

has_test_run_of(commands) ==
    IF commands \in DOMAIN TestRunMemo THEN TestRunMemo[commands]
    ELSE HasTestRun(commands)

RECURSIVE SumSeverity(_, _)
SumSeverity(failure_signals, i) ==
    IF i > Len(failure_signals) THEN 0
    ELSE failure_signals[i].severity + SumSeverity(failure_signals, i + 1)

\* high severity taken as `severity > 2`
has_high_severity_failure_above_two(failure_signals) ==
    \E i \in 1..Len(failure_signals) : failure_signals[i].severity > 2

has_high_severity_failure(failure_signals) ==
    \E i \in 1..Len(failure_signals) : failure_signals[i].severity >= 2

Crit(cond, met, missing) ==
    [met |-> IF cond THEN met ELSE <<>>, missing |-> IF cond THEN <<>> ELSE missing]

\* the dispatch with the refactor verdict copied from the feature branch
type_specific_evaluation_refactor_one_file(task_type, has_edits, has_reads, files_touched, git_ops, has_test_run, tools_used, duration, user_msgs) ==
    LET edits == Crit(has_edits, <<"has_edits">>, <<"has_edits">>)
        edits_opt == Crit(has_edits, <<"has_edits">>, <<>>)
    IN
    CASE task_type = "bug_fix" ->
           LET v == Crit(has_test_run \/ git_ops.has_commit, <<"has_verification">>,
                         <<"has_verification (test or commit)">>)
           IN  [ completed |-> has_edits /\ (has_test_run \/ git_ops.has_commit),
                 criteria_met |-> edits.met \o v.met,
                 criteria_missing |-> edits.missing \o v.missing ]
      [] task_type = "feature" ->
           LET f == Crit(files_touched > 0, <<"files_touched">>, <<"files_touched">>)
           IN  [ completed |-> has_edits /\ files_touched > 0,
                 criteria_met |-> edits.met \o f.met,
                 criteria_missing |-> edits.missing \o f.missing ]
      [] task_type = "refactor" ->
           LET f == Crit(files_touched > 1, <<"multiple_files_touched">>,
                         <<"multiple_files_touched (>1)">>)
           IN  [ completed |-> has_edits /\ files_touched > 0,
                 criteria_met |-> edits.met \o f.met,
                 criteria_missing |-> edits.missing \o f.missing ]
      [] task_type = "debug" ->
           LET r == Crit(has_reads, <<"has_reads">>, <<>>)
               t == Crit(duration > Minutes(5), <<"sufficient_investigation_time">>,
                         <<"sufficient_investigation_time (>5 min)">>)
           IN  [ completed |-> has_reads /\ duration > Minutes(5) /\ user_msgs > 1,
                 criteria_met |-> r.met \o t.met,
                 criteria_missing |-> r.missing \o t.missing ]
      [] task_type = "testing" ->
           LET t == Crit(has_test_run, <<"test_execution">>, <<"test_execution">>)
           IN  [ completed |-> has_test_run,
                 criteria_met |-> t.met \o edits_opt.met,
                 criteria_missing |-> t.missing ]
      [] task_type = "config" ->
           LET b == Crit("Bash" \in tools_used, <<"bash_execution">>, <<>>)
           IN  [ completed |-> has_edits \/ "Bash" \in tools_used,
                 criteria_met |-> edits_opt.met \o b.met,
                 criteria_missing |-> <<>> ]
      [] task_type = "exploration" ->
           LET r == Crit(has_reads, <<"has_reads">>, <<"has_reads">>)
               u == Crit(user_msgs > 1, <<"user_interaction">>,
                         <<"user_interaction (>1 message)">>)
           IN  [ completed |-> has_reads /\ user_msgs > 1,
                 criteria_met |-> r.met \o u.met,
                 criteria_missing |-> r.missing \o u.missing ]
      [] OTHER ->
           LET f == Crit(files_touched > 0, <<"files_touched">>, <<>>)
               g == Crit(git_ops.has_commit \/ git_ops.has_push, <<"git_changes">>, <<>>)
           IN  [ completed |-> \/ has_edits
                               \/ /\ files_touched > 0
                                  /\ (git_ops.has_commit \/ git_ops.has_push),
                 criteria_met |-> edits_opt.met \o f.met \o g.met,
                 criteria_missing |-> <<>> ]

\* the dispatch with the debug verdict at `duration >= 5`
type_specific_evaluation_debug_inclusive(task_type, has_edits, has_reads, files_touched, git_ops, has_test_run, tools_used, duration, user_msgs) ==
    LET edits == Crit(has_edits, <<"has_edits">>, <<"has_edits">>)
        edits_opt == Crit(has_edits, <<"has_edits">>, <<>>)
    IN
    CASE task_type = "bug_fix" ->
           LET v == Crit(has_test_run \/ git_ops.has_commit, <<"has_verification">>,
                         <<"has_verification (test or commit)">>)
           IN  [ completed |-> has_edits /\ (has_test_run \/ git_ops.has_commit),
                 criteria_met |-> edits.met \o v.met,
                 criteria_missing |-> edits.missing \o v.missing ]
      [] task_type = "feature" ->
           LET f == Crit(files_touched > 0, <<"files_touched">>, <<"files_touched">>)
           IN  [ completed |-> has_edits /\ files_touched > 0,
                 criteria_met |-> edits.met \o f.met,
                 criteria_missing |-> edits.missing \o f.missing ]
      [] task_type = "refactor" ->
           LET f == Crit(files_touched > 1, <<"multiple_files_touched">>,
                         <<"multiple_files_touched (>1)">>)
           IN  [ completed |-> has_edits /\ files_touched > 1,
                 criteria_met |-> edits.met \o f.met,
                 criteria_missing |-> edits.missing \o f.missing ]
      [] task_type = "debug" ->
           LET r == Crit(has_reads, <<"has_reads">>, <<>>)
               t == Crit(duration > Minutes(5), <<"sufficient_investigation_time">>,
                         <<"sufficient_investigation_time (>5 min)">>)
           IN  [ completed |-> has_reads /\ duration >= Minutes(5) /\ user_msgs > 1,
                 criteria_met |-> r.met \o t.met,
                 criteria_missing |-> r.missing \o t.missing ]
      [] task_type = "testing" ->
           LET t == Crit(has_test_run, <<"test_execution">>, <<"test_execution">>)
           IN  [ completed |-> has_test_run,
                 criteria_met |-> t.met \o edits_opt.met,
                 criteria_missing |-> t.missing ]
      [] task_type = "config" ->
           LET b == Crit("Bash" \in tools_used, <<"bash_execution">>, <<>>)
           IN  [ completed |-> has_edits \/ "Bash" \in tools_used,
                 criteria_met |-> edits_opt.met \o b.met,
                 criteria_missing |-> <<>> ]
      [] task_type = "exploration" ->
           LET r == Crit(has_reads, <<"has_reads">>, <<"has_reads">>)
               u == Crit(user_msgs > 1, <<"user_interaction">>,
                         <<"user_interaction (>1 message)">>)
           IN  [ completed |-> has_reads /\ user_msgs > 1,
                 criteria_met |-> r.met \o u.met,
                 criteria_missing |-> r.missing \o u.missing ]
      [] OTHER ->
           LET f == Crit(files_touched > 0, <<"files_touched">>, <<>>)
               g == Crit(git_ops.has_commit \/ git_ops.has_push, <<"git_changes">>, <<>>)
           IN  [ completed |-> \/ has_edits
                               \/ /\ files_touched > 0
                                  /\ (git_ops.has_commit \/ git_ops.has_push),
                 criteria_met |-> edits_opt.met \o f.met \o g.met,
                 criteria_missing |-> <<>> ]

\* The task-type dispatch, lines 511-615: the verdict and the two lists
\* before the failure-signal downgrade.
type_specific_evaluation(task_type, has_edits, has_reads, files_touched, git_ops, has_test_run, tools_used, duration, user_msgs) ==
    LET edits == Crit(has_edits, <<"has_edits">>, <<"has_edits">>)
        edits_opt == Crit(has_edits, <<"has_edits">>, <<>>)
    IN
    CASE task_type = "bug_fix" ->
           LET v == Crit(has_test_run \/ git_ops.has_commit, <<"has_verification">>,
                         <<"has_verification (test or commit)">>)
           IN  [ completed |-> has_edits /\ (has_test_run \/ git_ops.has_commit),
                 criteria_met |-> edits.met \o v.met,
                 criteria_missing |-> edits.missing \o v.missing ]
      [] task_type = "feature" ->
           LET f == Crit(files_touched > 0, <<"files_touched">>, <<"files_touched">>)
           IN  [ completed |-> has_edits /\ files_touched > 0,
                 criteria_met |-> edits.met \o f.met,
                 criteria_missing |-> edits.missing \o f.missing ]
      [] task_type = "refactor" ->
           LET f == Crit(files_touched > 1, <<"multiple_files_touched">>,
                         <<"multiple_files_touched (>1)">>)
           IN  [ completed |-> has_edits /\ files_touched > 1,
                 criteria_met |-> edits.met \o f.met,
                 criteria_missing |-> edits.missing \o f.missing ]
      [] task_type = "debug" ->
           LET r == Crit(has_reads, <<"has_reads">>, <<>>)
               t == Crit(duration > Minutes(5), <<"sufficient_investigation_time">>,
                         <<"sufficient_investigation_time (>5 min)">>)
           IN  [ completed |-> has_reads /\ duration > Minutes(5) /\ user_msgs > 1,
                 criteria_met |-> r.met \o t.met,
                 criteria_missing |-> r.missing \o t.missing ]
      [] task_type = "testing" ->
           LET t == Crit(has_test_run, <<"test_execution">>, <<"test_execution">>)
           IN  [ completed |-> has_test_run,
                 criteria_met |-> t.met \o edits_opt.met,
                 criteria_missing |-> t.missing ]
      [] task_type = "config" ->
           LET b == Crit("Bash" \in tools_used, <<"bash_execution">>, <<>>)
           IN  [ completed |-> has_edits \/ "Bash" \in tools_used,
                 criteria_met |-> edits_opt.met \o b.met,
                 criteria_missing |-> <<>> ]
      [] task_type = "exploration" ->
           LET r == Crit(has_reads, <<"has_reads">>, <<"has_reads">>)
               u == Crit(user_msgs > 1, <<"user_interaction">>,
                         <<"user_interaction (>1 message)">>)
           IN  [ completed |-> has_reads /\ user_msgs > 1,
                 criteria_met |-> r.met \o u.met,
                 criteria_missing |-> r.missing \o u.missing ]
      [] OTHER ->
           LET f == Crit(files_touched > 0, <<"files_touched">>, <<>>)
               g == Crit(git_ops.has_commit \/ git_ops.has_push, <<"git_changes">>, <<>>)
           IN  [ completed |-> \/ has_edits
                               \/ /\ files_touched > 0
                                  /\ (git_ops.has_commit \/ git_ops.has_push),
                 criteria_met |-> edits_opt.met \o f.met \o g.met,
                 criteria_missing |-> <<>> ]

\* the downgrade that fails to clear the verdict
downgrade_keeps_verdict(verdict, failure_signals) ==
    IF verdict.completed /\ has_high_severity_failure(failure_signals)
    THEN [ completed |-> TRUE,
           criteria_met |-> verdict.criteria_met,
           criteria_missing |-> Append(verdict.criteria_missing, "failure_signals_detected") ]
    ELSE verdict

\* the downgrade looking at command errors and failed commits only
downgrade_errors_only(verdict, failure_signals) ==
    IF verdict.completed
       /\ has_high_severity_failure(SelectSeq(failure_signals,
              LAMBDA sig : sig.type \in {"error_in_commands", "failed_git_commit"}))
    THEN [ completed |-> FALSE,
           criteria_met |-> verdict.criteria_met,
           criteria_missing |-> Append(verdict.criteria_missing, "failure_signals_detected") ]
    ELSE verdict

\* lines 617-620
downgrade(verdict, failure_signals) ==
    IF verdict.completed /\ has_high_severity_failure(failure_signals)
    THEN [ completed |-> FALSE,
           criteria_met |-> verdict.criteria_met,
           criteria_missing |-> Append(verdict.criteria_missing, "failure_signals_detected") ]
    ELSE verdict

\* the comparison of the two lists with `>=`
completion_type_of_inclusive(completed, criteria_met, criteria_missing) ==
    IF completed THEN "completed"
    ELSE IF Len(criteria_met) > 0 /\ Len(criteria_met) >= Len(criteria_missing)
         THEN "partially_completed"
    ELSE "not_completed"

\* lines 622-628
completion_type_of(completed, criteria_met, criteria_missing) ==
    IF completed THEN "completed"
    ELSE IF Len(criteria_met) > 0 /\ Len(criteria_met) > Len(criteria_missing)
         THEN "partially_completed"
    ELSE "not_completed"

evaluate_task_completion(task_type, has_edits, has_reads, files_touched, git_ops, commands, tools_used, duration, user_msgs, failure_signals) ==
    LET has_test_run == has_test_run_of(commands)
        verdict == type_specific_evaluation(task_type, has_edits, has_reads,
                       files_touched, git_ops, has_test_run, tools_used,
                       duration, user_msgs)
        final == downgrade(verdict, failure_signals)
    IN  [ completed |-> final.completed,
          completion_type |-> completion_type_of(final.completed, final.criteria_met,
                                                 final.criteria_missing),
          criteria_met |-> final.criteria_met,
          criteria_missing |-> final.criteria_missing,
          failure_severity |-> SumSeverity(failure_signals, 1) ]

(***************************************************************************)
(* calculate_completion_confidence                                        *)
(***************************************************************************)
COMPLETION_CONFIDENCE_THRESHOLD == 60

\* One `score += d; signals.append((name, d))` step: add is what the score
\* receives, rec is the delta recorded in the signal list.
When(cond, name, delta) ==
    IF cond THEN << [name |-> name, add |-> delta, rec |-> delta] >> ELSE <<>>

RECURSIVE SumAdded(_, _)
SumAdded(steps, i) ==
    IF i > Len(steps) THEN 0 ELSE steps[i].add + SumAdded(steps, i + 1)

Recorded(steps) == [i \in 1..Len(steps) |-> <<steps[i].name, steps[i].rec>>]

OfType(failure_signals, type) ==
    SelectSeq(failure_signals, LAMBDA sig : sig.type = type)

\* the penalty counting 5 per signal, whatever its severity
error_penalty_per_signal(error_signals) == MinOf(20, 5 * Len(error_signals))

\* penalty = min(20, sum(s.get("severity", 1) * 5 for s in error_signals))
error_penalty(error_signals) == MinOf(20, 5 * SumSeverity(error_signals, 1))

positive_steps(task_type, has_edits, has_reads, files_touched, git_ops, has_test_run, duration, user_msgs, completion_eval) ==
    When(has_edits, "has_edits", 15)
    \o When(git_ops.has_commit /\ ~git_ops.has_failed_commit, "successful_commit", 20)
    \o When(git_ops.has_push, "git_push", 10)
    \o When(has_test_run, "tests_ran", 15)
    \o When(files_touched > 0, "files_touched", 10)
    \o When(files_touched > 0 /\ files_touched > 3, "multiple_files", 5)
    \o (IF task_type = "exploration" /\ duration > Minutes(3)
        THEN When(TRUE, "exploration_time", 5)
        ELSE When(task_type \in {"bug_fix", "feature", "refactor"}
                  /\ duration > Minutes(10), "sufficient_work_time", 5))
    \o When(user_msgs > 2, "user_engagement", 5)
    \o (IF task_type = "exploration" /\ has_reads /\ ~has_edits
        THEN When(TRUE, "exploration_reads_ok", 10)
        ELSE When(task_type = "debug" /\ has_reads /\ duration > Minutes(5),
                  "debug_investigation", 10))
    \o When(Len(completion_eval.criteria_met) > Len(completion_eval.criteria_missing),
            "criteria_met", 10)

\* the penalty subtracted from the score and recorded without its sign
negative_steps_unsigned_penalty(git_ops, failure_signals, completion_eval) ==
    LET error_signals == OfType(failure_signals, "error_in_commands")
    IN  (IF Len(error_signals) > 0
         THEN << [ name |-> "errors_detected", add |-> 0 - error_penalty(error_signals),
                   rec |-> error_penalty(error_signals) ] >>
         ELSE <<>>)
        \o When(git_ops.has_failed_commit, "failed_commit", -15)
        \o When(Len(OfType(failure_signals, "high_retry_ratio")) > 0, "high_retry_ratio", -15)
        \o When(Len(OfType(failure_signals, "user_frustration")) > 0, "user_frustration", -20)
        \o When(Len(OfType(failure_signals, "quick_abandonment")) > 0, "quick_abandonment", -20)
        \o When(Len(OfType(failure_signals, "no_tangible_output")) > 0, "no_tangible_output", -10)
        \o When(Len(completion_eval.criteria_missing) > Len(completion_eval.criteria_met),
                "criteria_missing", -10)

negative_steps(git_ops, failure_signals, completion_eval) ==
    LET error_signals == OfType(failure_signals, "error_in_commands")
    IN  When(Len(error_signals) > 0, "errors_detected", 0 - error_penalty(error_signals))
        \o When(git_ops.has_failed_commit, "failed_commit", -15)
        \o When(Len(OfType(failure_signals, "high_retry_ratio")) > 0, "high_retry_ratio", -15)
        \o When(Len(OfType(failure_signals, "user_frustration")) > 0, "user_frustration", -20)
        \o When(Len(OfType(failure_signals, "quick_abandonment")) > 0, "quick_abandonment", -20)
        \o When(Len(OfType(failure_signals, "no_tangible_output")) > 0, "no_tangible_output", -10)
        \o When(Len(completion_eval.criteria_missing) > Len(completion_eval.criteria_met),
                "criteria_missing", -10)

\* the clamp without its upper limit
clamp_score_floor_only(score) == MaxOf(0, score)

\* score = max(0, min(100, score))
clamp_score(score) == MaxOf(0, MinOf(100, score))

assessment_of(score) ==
    IF score >= 70 THEN "high" ELSE IF score >= 40 THEN "medium" ELSE "low"

calculate_completion_confidence(task_type, has_edits, has_reads, files_touched, git_ops, has_test_run, failure_signals, duration, user_msgs, completion_eval) ==
    LET positive == positive_steps(task_type, has_edits, has_reads, files_touched,
                                   git_ops, has_test_run, duration, user_msgs,
                                   completion_eval)
        negative == negative_steps(git_ops, failure_signals, completion_eval)
        positive_signals == Recorded(positive)
        negative_signals == Recorded(negative)
        score == clamp_score(50 + SumAdded(positive, 1) + SumAdded(negative, 1))
    IN  [ score |-> score,
          positive_signals |-> positive_signals,
          negative_signals |-> negative_signals,
          assessment |-> assessment_of(score) ]

(***************************************************************************)
(* analyze_session                                                        *)
(***************************************************************************)
HasEdits(tools_used) == "Edit" \in tools_used \/ "Write" \in tools_used
HasReads(tools_used) == {"Read", "Grep", "Glob"} \cap tools_used # {}

reported_issues(descriptions) ==
    [i \in 1..Len(descriptions) |->
        [type |-> "reported_issue", description |-> descriptions[i]]]

\* the detector's issues appended to the issues of the record
issues_of_appended(s) ==
    IF Len(s.original.issues) > 0
    THEN IF detect_issues_raises(s) THEN reported_issues(s.original.issues)
         ELSE reported_issues(s.original.issues) \o detect_issues(s)
    ELSE detect_issues(s)

\* lines 1052-1055
issues_of(s) ==
    IF Len(s.original.issues) > 0 THEN reported_issues(s.original.issues)
    ELSE detect_issues(s)

\* the remap with user_frustration left out of the abandonment signals
remap_prior_outcome_quick_only(actual_outcome, issues, failure_signals, completion_eval) ==
    IF actual_outcome = "completed"
    THEN IF Len(issues) > 0 THEN "completed_with_issues" ELSE "completed"
    ELSE IF actual_outcome = "had_issues"
    THEN IF HasSignal(failure_signals, {"quick_abandonment"})
         THEN "abandoned"
         ELSE IF completion_eval.completed THEN "completed_with_issues"
         ELSE "partially_completed"
    ELSE actual_outcome

\* lines 1108-1126: the record carries a prior outcome
remap_prior_outcome(actual_outcome, issues, failure_signals, completion_eval) ==
    IF actual_outcome = "completed"
    THEN IF Len(issues) > 0 THEN "completed_with_issues" ELSE "completed"
    ELSE IF actual_outcome = "had_issues"
    THEN IF HasSignal(failure_signals, {"quick_abandonment", "user_frustration"})
         THEN "abandoned"
         ELSE IF completion_eval.completed THEN "completed_with_issues"
         ELSE "partially_completed"
    ELSE actual_outcome

\* derive_outcome with the last branch handing on the evaluator's label
derive_outcome_raw_label(score, issues, task_type, session_type, has_reads, user_msgs, failure_signals, completion_eval, duration, tool_calls) ==
    LET has_frustration == HasSignal(failure_signals, {"user_frustration"})
    IN  IF score >= COMPLETION_CONFIDENCE_THRESHOLD
        THEN IF Len(issues) > 0 THEN "completed_with_issues" ELSE "completed"
        ELSE IF task_type = "exploration" /\ has_reads /\ user_msgs > 1
        THEN "exploration_complete"
        ELSE IF session_type = "lookup" /\ has_reads /\ user_msgs >= 1 /\ ~has_frustration
        THEN "lookup_complete"
        ELSE IF task_type = "lookup" /\ has_reads /\ user_msgs >= 1 /\ ~has_frustration
        THEN "lookup_complete"
        ELSE IF HasSignal(failure_signals, {"quick_abandonment"})
        THEN "abandoned"
        ELSE IF has_frustration
        THEN "abandoned"
        ELSE IF completion_eval.completion_type = "partially_completed"
        THEN "partially_completed"
        ELSE IF HasSignal(failure_signals, {"error_in_commands", "failed_git_commit"})
        THEN IF duration > Minutes(10) /\ tool_calls > 20 THEN "blocked"
             ELSE "partially_completed"
        ELSE completion_eval.completion_type

\* derive_outcome with the abandonment tests moved above the exploration and
\* lookup tests
derive_outcome_abandon_first(score, issues, task_type, session_type, has_reads, user_msgs, failure_signals, completion_eval, duration, tool_calls) ==
    LET has_frustration == HasSignal(failure_signals, {"user_frustration"})
    IN  IF score >= COMPLETION_CONFIDENCE_THRESHOLD
        THEN IF Len(issues) > 0 THEN "completed_with_issues" ELSE "completed"
        ELSE IF HasSignal(failure_signals, {"quick_abandonment"})
        THEN "abandoned"
        ELSE IF has_frustration
        THEN "abandoned"
        ELSE IF task_type = "exploration" /\ has_reads /\ user_msgs > 1
        THEN "exploration_complete"
        ELSE IF session_type = "lookup" /\ has_reads /\ user_msgs >= 1
        THEN "lookup_complete"
        ELSE IF task_type = "lookup" /\ has_reads /\ user_msgs >= 1
        THEN "lookup_complete"
        ELSE IF completion_eval.completion_type = "partially_completed"
        THEN "partially_completed"
        ELSE IF HasSignal(failure_signals, {"error_in_commands", "failed_git_commit"})
        THEN IF duration > Minutes(10) /\ tool_calls > 20 THEN "blocked"
             ELSE "partially_completed"
        ELSE "unclear"

\* derive_outcome with the lookup tests asking for more than one user message
derive_outcome_lookup_two_msgs(score, issues, task_type, session_type, has_reads, user_msgs, failure_signals, completion_eval, duration, tool_calls) ==
    LET has_frustration == HasSignal(failure_signals, {"user_frustration"})
    IN  IF score >= COMPLETION_CONFIDENCE_THRESHOLD
        THEN IF Len(issues) > 0 THEN "completed_with_issues" ELSE "completed"
        ELSE IF task_type = "exploration" /\ has_reads /\ user_msgs > 1
        THEN "exploration_complete"
        ELSE IF session_type = "lookup" /\ has_reads /\ user_msgs > 1 /\ ~has_frustration
        THEN "lookup_complete"
        ELSE IF task_type = "lookup" /\ has_reads /\ user_msgs > 1 /\ ~has_frustration
        THEN "lookup_complete"
        ELSE IF HasSignal(failure_signals, {"quick_abandonment"})
        THEN "abandoned"
        ELSE IF has_frustration
        THEN "abandoned"
        ELSE IF completion_eval.completion_type = "partially_completed"
        THEN "partially_completed"
        ELSE IF HasSignal(failure_signals, {"error_in_commands", "failed_git_commit"})
        THEN IF duration > Minutes(10) /\ tool_calls > 20 THEN "blocked"
             ELSE "partially_completed"
        ELSE "unclear"

\* lines 1128-1166: the outcome is derived from the analysis
derive_outcome(score, issues, task_type, session_type, has_reads, user_msgs, failure_signals, completion_eval, duration, tool_calls) ==
    LET has_frustration == HasSignal(failure_signals, {"user_frustration"})
    IN  IF score >= COMPLETION_CONFIDENCE_THRESHOLD
        THEN IF Len(issues) > 0 THEN "completed_with_issues" ELSE "completed"
        ELSE IF task_type = "exploration" /\ has_reads /\ user_msgs > 1
        THEN "exploration_complete"
        ELSE IF session_type = "lookup" /\ has_reads /\ user_msgs >= 1 /\ ~has_frustration
        THEN "lookup_complete"
        ELSE IF task_type = "lookup" /\ has_reads /\ user_msgs >= 1 /\ ~has_frustration
        THEN "lookup_complete"
        ELSE IF HasSignal(failure_signals, {"quick_abandonment"})
        THEN "abandoned"
        ELSE IF has_frustration
        THEN "abandoned"
        ELSE IF completion_eval.completion_type = "partially_completed"
        THEN "partially_completed"
        ELSE IF HasSignal(failure_signals, {"error_in_commands", "failed_git_commit"})
        THEN IF duration > Minutes(10) /\ tool_calls > 20 THEN "blocked"
             ELSE "partially_completed"
        ELSE "unclear"

\* likely_completed taken from the score alone
likely_completed_score_only(score, outcome) ==
    score >= COMPLETION_CONFIDENCE_THRESHOLD

\* lines 1169-1172
\* likely_completed with exploration_complete left out of the tuple
likely_completed_lookup_only(score, outcome) ==
    score >= COMPLETION_CONFIDENCE_THRESHOLD \/ outcome = "lookup_complete"

likely_completed_of(score, outcome) ==
    \/ score >= COMPLETION_CONFIDENCE_THRESHOLD
    \/ outcome \in {"lookup_complete", "exploration_complete"}

\* detect_issues is called only when the record brings no issues of its own
analyze_session_raises(s) ==
    Len(s.original.issues) = 0 /\ detect_issues_raises(s)

analyze_session(s) ==
    LET prompts == s.task_context.initial_prompts
        commands == s.task_context.commands_sample
        tools_used == s.statistics.tools_used
        files_touched == Len(s.task_context.files_touched)
        has_edits == HasEdits(tools_used)
        has_reads == HasReads(tools_used)
        tool_calls == s.statistics.tool_call_count
        user_msgs == s.statistics.user_messages
        duration == OrElse(s.metadata.duration_minutes, 0)
        task_type == IF Truthy(s.original.task_type) THEN s.original.task_type[1]
                     ELSE classify_task_type(prompts, commands, tools_used,
                              Some(duration), Some(tool_calls), Some(has_edits))
        issues == issues_of(s)
        git_ops == git_operations_of(commands)
        failure_signals == detect_failure_signals(s)
        has_test_run == has_test_run_of(commands)
        completion_eval == evaluate_task_completion(task_type, has_edits, has_reads,
                               files_touched, git_ops, commands, tools_used,
                               duration, user_msgs, failure_signals)
        confidence == calculate_completion_confidence(task_type, has_edits,
                          has_reads, files_touched, git_ops, has_test_run,
                          failure_signals, duration, user_msgs, completion_eval)
        actual_outcome == s.metadata.outcome
        outcome == IF Truthy(actual_outcome)
                   THEN remap_prior_outcome(actual_outcome[1], issues,
                                            failure_signals, completion_eval)
                   ELSE derive_outcome(confidence.score, issues, task_type,
                            classify_session_type(duration, tool_calls, has_edits,
                                                  tools_used),
                            has_reads, user_msgs, failure_signals, completion_eval,
                            duration, tool_calls)
    IN  [ task_analysis |->
            [ task_type |-> task_type,
              likely_completed |-> likely_completed_of(confidence.score, outcome),
              outcome |-> outcome ],
          completion_analysis |->
            [ confidence_score |-> confidence.score,
              confidence_assessment |-> confidence.assessment,
              positive_signals |-> confidence.positive_signals,
              negative_signals |-> confidence.negative_signals,
              completion_type |-> completion_eval.completion_type,
              criteria_met |-> completion_eval.criteria_met,
              criteria_missing |-> completion_eval.criteria_missing,
              failure_signals |-> failure_signals,
              git_operations |-> git_ops ],
          quality_assessment |->
            [ issues |-> issues,
              files_touched_count |-> files_touched,
              tools_diversity |-> Cardinality(tools_used) ] ]

(***************************************************************************)
(* Session records analysed by the main loop                              *)
(***************************************************************************)
MaxUserMsgs == 3

ToolSets == { {"Write"}, {"Read", "Grep"}, {"Read", "Edit", "Bash"}, {"Bash", "NotebookEdit"} }

Durations == { None, Some(15), Some(30), Some(60), Some(110) }

ToolCallCounts == { 4, 8, 16, 25 }

FileLists == { <<>>, <<"a.py">>, <<"a.py", "b.py", "c.py", "d.py">> }

PriorOutcomes ==
    { None, Some(""), Some("completed"), Some("had_issues"),
      Some("lookup_complete"), Some("stalled") }

OriginalTaskTypes == { None, Some("docs") }

OriginalIssues == { <<>>, <<"build was flaky">> }

TurnCounts == { 4, 24 }

\* Records in the extract format pass through normalize_session unchanged:
\* they carry no _original block and, at most, an empty outcome.
ExtractSessions ==
    [ metadata : [ duration_minutes : Durations, outcome : { None, Some("") } ],
      statistics : [ user_messages : 0..MaxUserMsgs,
                     tool_call_count : ToolCallCounts,
                     tools_used : ToolSets,
                     total_turns : TurnCounts ],
      task_context : [ initial_prompts : SessionPromptLists,
                       commands_sample : SessionCommandLists,
                       files_touched : FileLists ],
      original : [ task_type : { None }, issues : { <<>> } ] ]

\* Records in the report format after normalize_session: the outcome and the
\* _original block of the report, one prompt at most (the task summary) and
\* no commands.
ReportToolSets == { {"Read", "Grep"}, {"Read", "Edit", "Bash"} }

ReportToolCallCounts == { 4, 25 }

ReportSessions ==
    [ metadata : [ duration_minutes : Durations, outcome : PriorOutcomes ],
      statistics : [ user_messages : 0..MaxUserMsgs,
                     tool_call_count : ReportToolCallCounts,
                     tools_used : ReportToolSets,
                     total_turns : TurnCounts ],
      task_context : [ initial_prompts : { p \in SessionPromptLists : Len(p) <= 1 },
                       commands_sample : { <<>> },
                       files_touched : FileLists ],
      original : [ task_type : OriginalTaskTypes, issues : OriginalIssues ] ]

Sessions == ExtractSessions \cup ReportSessions

Init ==
    /\ pc = "loaded"
    /\ session \in Sessions
    /\ analysis = None
    /\ args = None
    /\ ret = None

\* analyzed = analyze_session(session)
AnalyzeSession ==
    /\ pc = "loaded"
    /\ ~analyze_session_raises(session)
    /\ analysis' = analyze_session(session)
    /\ pc' = "returned"
    /\ UNCHANGED <<session, args, ret>>

\* analyze_session(session) ends in a TypeError
AnalyzeSessionRaises ==
    /\ pc = "loaded"
    /\ analyze_session_raises(session)
    /\ pc' = "raised"
    /\ UNCHANGED <<session, analysis, args, ret>>

Next == AnalyzeSession \/ AnalyzeSessionRaises

Spec == Init /\ [][Next]_vars

(***************************************************************************)
(* The classifiers, the evaluator and the scorer called on their own:     *)
(* args is the argument record of one call, ret is what the call returns. *)
(***************************************************************************)
MaxFilesTouched == 4

TaskTypes ==
    { "bug_fix", "testing", "config", "review", "exploration", "debug",
      "refactor", "feature", "update", "lookup", "general" }

OptionalDurations == { None, Some(30), Some(50), Some(60) }
OptionalToolCalls == { None, Some(4), Some(10) }
OptionalBooleans == { None, Some(FALSE), Some(TRUE) }

ClassifyArgs ==
    [ prompts : PromptLists, duration : OptionalDurations,
      tool_calls : OptionalToolCalls, has_edits : OptionalBooleans ]

InitClassify ==
    /\ pc = "call"
    /\ args \in ClassifyArgs
    /\ ret = None
    /\ session = None
    /\ analysis = None

CallClassifyTaskType ==
    /\ pc = "call"
    /\ ret' = classify_task_type(args.prompts, <<>>, {}, args.duration,
                                 args.tool_calls, args.has_edits)
    /\ pc' = "returned"
    /\ UNCHANGED <<args, session, analysis>>

NextClassify == CallClassifyTaskType

SpecClassify == InitClassify /\ [][NextClassify]_vars

\* git_ops as classify_git_operations can return them
GitOpsValues ==
    { g \in [ has_commit : BOOLEAN, has_push : BOOLEAN, has_failed_commit : BOOLEAN ] :
        g.has_failed_commit => g.has_commit }

FailureSignalLists ==
    { <<>>,
      << Signal("read_without_edit", 1) >>,
      << Signal("error_in_commands", 1), Signal("no_tangible_output", 1) >>,
      << Signal("quick_abandonment", 2) >>,
      << Signal("error_in_commands", 3), Signal("read_without_edit", 1) >>,
      << Signal("error_in_commands", 3), Signal("high_retry_ratio", 2),
         Signal("quick_abandonment", 2), Signal("failed_git_commit", 2),
         Signal("user_frustration", 2), Signal("no_tangible_output", 1) >> }

EvalArgs ==
    [ task_type : TaskTypes \cup {"docs"},
      has_edits : BOOLEAN, has_reads : BOOLEAN,
      files_touched : 0..MaxFilesTouched,
      git_ops : { g \in GitOpsValues : ~g.has_failed_commit },
      commands : { <<>>, <<"npm test">> },
      tools_used : { {"Read"}, {"Bash"} },
      duration : { 50, 60 },
      user_msgs : 0..MaxUserMsgs,
      failure_signals : FailureSignalLists ]

InitEval ==
    /\ pc = "call"
    /\ args \in EvalArgs
    /\ ret = None
    /\ session = None
    /\ analysis = None

CallEvaluateTaskCompletion ==
    /\ pc = "call"
    /\ ret' = evaluate_task_completion(args.task_type, args.has_edits,
                  args.has_reads, args.files_touched, args.git_ops, args.commands,
                  args.tools_used, args.duration, args.user_msgs,
                  args.failure_signals)
    /\ pc' = "returned"
    /\ UNCHANGED <<args, session, analysis>>

NextEval == CallEvaluateTaskCompletion

SpecEval == InitEval /\ [][NextEval]_vars

CompletionEvals ==
    { [ criteria_met |-> <<"has_edits", "files_touched">>, criteria_missing |-> <<>> ],
      [ criteria_met |-> <<"has_edits">>, criteria_missing |-> <<"files_touched">> ],
      [ criteria_met |-> <<>>, criteria_missing |-> <<"has_edits", "files_touched">> ] }

\* a caller's list with two error_in_commands signals, severities 3 and 2
RepeatedErrorSignals ==
    { << Signal("error_in_commands", 3), Signal("error_in_commands", 2) >> }

ConfidenceArgs ==
    [ task_type : { "bug_fix", "exploration", "debug", "general" },
      has_edits : BOOLEAN, has_reads : BOOLEAN,
      files_touched : { 0, 1, MaxFilesTouched },
      git_ops : GitOpsValues,
      has_test_run : BOOLEAN,
      failure_signals : FailureSignalLists \cup RepeatedErrorSignals,
      duration : { 30, 40, 60, 110 },
      user_msgs : { 0, MaxUserMsgs },
      completion_eval : CompletionEvals ]

InitConfidence ==
    /\ pc = "call"
    /\ args \in ConfidenceArgs
    /\ ret = None
    /\ session = None
    /\ analysis = None

CallCalculateCompletionConfidence ==
    /\ pc = "call"
    /\ ret' = calculate_completion_confidence(args.task_type, args.has_edits,
                  args.has_reads, args.files_touched, args.git_ops,
                  args.has_test_run, args.failure_signals, args.duration,
                  args.user_msgs, args.completion_eval)
    /\ pc' = "returned"
    /\ UNCHANGED <<args, session, analysis>>

NextConfidence == CallCalculateCompletionConfidence

SpecConfidence == InitConfidence /\ [][NextConfidence]_vars

MaxCommands == 2

\* Single commands: git writes, git reads, commands that only contain the
\* letters "git", commands without them, and one command string that chains
\* a read with a commit.
GitCommandPool ==
    { "git status", "GIT LOG --oneline", "git diff && git show",
      "git commit -m wip", "git commit -m 'fix' error: hook failed",
      "git push", "git add .", "ls digits", "npm test", "make all",
      "git status && git commit -m wip" }

GitArgs == [ commands : SeqsUpTo(GitCommandPool, MaxCommands) ]

InitGit ==
    /\ pc = "call"
    /\ args \in GitArgs
    /\ ret = None
    /\ session = None
    /\ analysis = None

CallClassifyGitOperations ==
    /\ pc = "call"
    /\ ret' = classify_git_operations(args.commands)
    /\ pc' = "returned"
    /\ UNCHANGED <<args, session, analysis>>

NextGit == CallClassifyGitOperations

SpecGit == InitGit /\ [][NextGit]_vars

\* Records detect_failure_signals is called with: durations around the
\* 2-minute limit, tool-call counts around 5, 10 and 15 per message.
SignalDurations == { None, Some(0), Some(15), Some(20), Some(60) }

SignalToolCallCounts == { 0, 5, 6, 8, 16 }

SignalSessions ==
    [ metadata : [ duration_minutes : SignalDurations, outcome : { None } ],
      statistics : [ user_messages : 0..MaxUserMsgs,
                     tool_call_count : SignalToolCallCounts,
                     tools_used : { {"Read", "Grep"}, {"Read", "Edit", "Bash"}, {"Bash"} },
                     total_turns : { 4 } ],
      task_context : [ initial_prompts : { <<>>, <<"stop, this is wrong">>, <<"add a button">> },
                       commands_sample : SessionCommandLists \cup ErrorCommandLists,
                       files_touched : { <<>> } ],
      original : [ task_type : { None }, issues : { <<>> } ] ]

InitSignals ==
    /\ pc = "call"
    /\ session \in SignalSessions
    /\ ret = None
    /\ args = None
    /\ analysis = None

CallDetectFailureSignals ==
    /\ pc = "call"
    /\ ret' = detect_failure_signals(session)
    /\ pc' = "returned"
    /\ UNCHANGED <<session, args, analysis>>

NextSignals == CallDetectFailureSignals

SpecSignals == InitSignals /\ [][NextSignals]_vars

(***************************************************************************)
(* extract_key_topics and two runs of the analysis on one record.  topics  *)
(* is a set of str: the order in which list(topics) walks it follows the   *)
(* string hashes, which are salted anew in every interpreter process, so   *)
(* a run may return any arrangement of the set.                            *)
(***************************************************************************)
tech_terms ==
    << "api", "database", "auth", "login", "test", "build", "deploy",
       "component", "hook", "state", "redux", "react", "typescript",
       "error", "bug", "fix", "feature", "refactor", "performance",
       "terraform", "kubernetes", "docker", "ci", "cd", "pipeline" >>

\* the set topics after the loop over the prompts
FoundTopics(prompts) ==
    { tech_terms[k] : k \in { n \in 1..Len(tech_terms) :
          \E i \in 1..Len(prompts) : Contains(Lower(prompts[i]), tech_terms[n]) } }

RECURSIVE Arrangements(_)
Arrangements(S) ==
    IF S = {} THEN { <<>> }
    ELSE UNION { { <<x>> \o q : q \in Arrangements(S \ {x}) } : x \in S }

\* list(topics)[:10]: the lists a call can return
extract_key_topics(prompts) ==
    { SubSeq(q, 1, MinOf(10, Len(q))) : q \in Arrangements(FoundTopics(prompts)) }

\* topics = original.get("key_topics") or extract_key_topics(prompts)
key_topics_of(s) ==
    IF Len(s.original.key_topics) > 0 THEN { s.original.key_topics }
    ELSE extract_key_topics(s.task_context.initial_prompts)

IsBuildCommand(cmd) ==
    \E x \in {"build", "test", "npm", "yarn", "gradle"} : Contains(Lower(cmd), x)

\* a success is modelled by its type, a reported one by its description too
detect_successes(s) ==
    LET tools_used == s.statistics.tools_used
        commands == s.task_context.commands_sample
    IN  (IF ("Edit" \in tools_used \/ "Write" \in tools_used)
            /\ Len(s.task_context.files_touched) > 0
         THEN << [type |-> "code_changes"] >> ELSE <<>>)
        \o (IF Len(SelectSeq(commands, IsBuildCommand)) > 0
            THEN << [type |-> "build_commands"] >> ELSE <<>>)
        \o (IF Len(SelectSeq(commands, IsGitCommand)) > 0
            THEN << [type |-> "git_operations"] >> ELSE <<>>)

\* successes kept in one list shared by all calls: a call returns what the
\* calls before it in the batch have put there, followed by its own
successes_of_accumulated(s) ==
    (IF Len(ret) > 0 THEN ret[Len(ret)].quality_assessment.successes ELSE <<>>)
    \o detect_successes(s)

\* lines 1057-1060
successes_of(s) ==
    IF Len(s.original.successes) > 0
    THEN [i \in 1..Len(s.original.successes) |->
            [type |-> "reported_success", description |-> s.original.successes[i]]]
    ELSE detect_successes(s)

\* the results a run of analyze_session can return, with the key_topics and
\* successes fields
analyze_session_results(s) ==
    { [ analyze_session(s) EXCEPT !.task_analysis = @ @@ [key_topics |-> t],
                                  !.quality_assessment = @ @@ [successes |-> successes_of(s)] ] :
        t \in key_topics_of(s) }

RunPromptLists ==
    { <<>>,
      <<"Fix the failing test">>,
      <<"run pytest">>,
      <<"add a button", "Fix the failing test">> }

RunSessions ==
    [ metadata : [ duration_minutes : { None, Some(30), Some(110) }, outcome : { None } ],
      statistics : [ user_messages : 0..MaxUserMsgs,
                     tool_call_count : { 25 },
                     tools_used : { {"Read", "Grep"}, {"Read", "Edit", "Bash"} },
                     total_turns : { 4 } ],
      task_context : [ initial_prompts : RunPromptLists,
                       commands_sample : { <<>>, <<"npm test">> },
                       files_touched : { <<"a.py">> } ],
      original : [ task_type : { None, Some(""), Some("docs") },
                   issues : OriginalIssues,
                   successes : { <<>>, <<"shipped it">> },
                   key_topics : { <<>>, <<"auth", "api">> } ] ]

InitRuns ==
    /\ pc = "loaded"
    /\ session \in RunSessions
    /\ analysis = None
    /\ ret = None
    /\ args = None

\* One run of the script on the record, each run in a process of its own:
\* the first result is kept in analysis, the second in ret.
Run ==
    /\ pc \in {"loaded", "first"}
    /\ ~analyze_session_raises(session)
    /\ \E r \in analyze_session_results(session) :
         IF pc = "loaded"
         THEN analysis' = r /\ ret' = ret /\ pc' = "first"
         ELSE ret' = r /\ analysis' = analysis /\ pc' = "second"
    /\ UNCHANGED <<session, args>>

RunRaises ==
    /\ pc = "loaded"
    /\ analyze_session_raises(session)
    /\ pc' = "raised"
    /\ UNCHANGED <<session, analysis, ret, args>>

NextRuns == Run \/ RunRaises

SpecRuns == InitRuns /\ [][NextRuns]_vars

SessionTypeArgs ==
    [ duration_minutes : { 0, 30, 49, 50, 60 },
      tool_calls : { 0, 9, 10, 25 },
      has_edits : BOOLEAN,
      tools_used : SUBSET {"Read", "Bash", "Edit", "Write", "NotebookEdit"} ]

InitSessionType ==
    /\ pc = "call"
    /\ args \in SessionTypeArgs
    /\ ret = None
    /\ session = None
    /\ analysis = None

CallClassifySessionType ==
    /\ pc = "call"
    /\ ret' = classify_session_type(args.duration_minutes, args.tool_calls,
                                     args.has_edits, args.tools_used)
    /\ pc' = "returned"
    /\ UNCHANGED <<args, session, analysis>>

NextSessionType == CallClassifySessionType

SpecSessionType == InitSessionType /\ [][NextSessionType]_vars

(***************************************************************************)
(* is_valid_session and the tallies of generate_aggregate_report           *)
(***************************************************************************)
\* the validity test with `user_msgs < 0` as its second test
is_valid_session_zero_messages(s) ==
    IF IsNone(s.metadata.duration_minutes) \/ s.metadata.duration_minutes[1] < 0
    THEN FALSE
    ELSE IF s.statistics.user_messages < 0 THEN FALSE
    ELSE TRUE

is_valid_session(s) ==
    IF IsNone(s.metadata.duration_minutes) \/ s.metadata.duration_minutes[1] < 0
    THEN FALSE
    ELSE IF s.statistics.user_messages <= 0 THEN FALSE
    ELSE TRUE

\* project.split("/")[-1] if "/" in project else project
project_short(project) ==
    LET slashes == { i \in 1..Len(project) : CharAt(project, i) = "/" }
    IN  IF slashes = {} THEN project
        ELSE SubSeq(project, (CHOOSE i \in slashes : \A j \in slashes : j <= i) + 1,
                    Len(project))

RECURSIVE SumSeq(_, _)
SumSeq(numbers, i) ==
    IF i > Len(numbers) THEN 0 ELSE numbers[i] + SumSeq(numbers, i + 1)

\* sum(f(x) for x in sessions), the values of f given as a sequence
Total(values) == SumSeq(values, 1)

\* a session of duration 0 given a type of its own
SessionTypeOf_zero_unknown(s) ==
    IF OrElse(s.metadata.duration_minutes, 0) = 0 THEN "unknown"
    ELSE classify_session_type(OrElse(s.metadata.duration_minutes, 0),
             s.statistics.tool_call_count, HasEdits(s.statistics.tools_used),
             s.statistics.tools_used)

SessionTypeOf(s) ==
    classify_session_type(OrElse(s.metadata.duration_minutes, 0),
        s.statistics.tool_call_count, HasEdits(s.statistics.tools_used),
        s.statistics.tools_used)

\* outcome = task_analysis.get("outcome") or task_analysis.get("actual_outcome")
\*           or "unknown"
report_outcome(v) ==
    IF v.task_analysis.outcome # "" THEN v.task_analysis.outcome
    ELSE IF "actual_outcome" \in DOMAIN v.task_analysis /\ v.task_analysis.actual_outcome # ""
         THEN v.task_analysis.actual_outcome
    ELSE "unknown"

\* test_patterns of the report, line 1367
report_test_patterns ==
    << Word("test"), Word("pytest"), Word("jest"), Words2("npm", "test"),
       Words2("yarn", "test") >>

\* commands = session.get("task_context", {}).get("commands_sample", [])
report_commands(v) ==
    IF "task_context" \in DOMAIN v THEN v.task_context.commands_sample ELSE <<>>

\* has_tests, lines 1368-1371
has_tests(v) ==
    \E i \in 1..Len(report_commands(v)) :
        AnyPattern(report_test_patterns, Lower(report_commands(v)[i]))

\* The tallies of the report that the loop over valid_sessions fills, and
\* the three counts of the summary taken before the loop.
generate_aggregate_report(analyzed_sessions) ==
    LET valid_sessions == SelectSeq(analyzed_sessions, is_valid_session)
        V == 1..Len(valid_sessions)
        duration(i) == OrElse(valid_sessions[i].metadata.duration_minutes, 0)
        tool_count(i) == valid_sessions[i].statistics.tool_call_count
        files_count(i) == valid_sessions[i].quality_assessment.files_touched_count
        short(i) == project_short(valid_sessions[i].project)
        done(i) == valid_sessions[i].task_analysis.likely_completed
        of_project(name) == SelectSeq(valid_sessions, LAMBDA v : project_short(v.project) = name)
        of_type(t) == SelectSeq(valid_sessions, LAMBDA v : SessionTypeOf(v) = t)
        type_tally(t) ==
            [ count |-> Len(of_type(t)),
              total_duration |-> Total([i \in 1..Len(of_type(t)) |->
                                    OrElse(of_type(t)[i].metadata.duration_minutes, 0)]),
              total_tool_calls |-> Total([i \in 1..Len(of_type(t)) |->
                                    of_type(t)[i].statistics.tool_call_count]) ]
    IN  [ summary |->
            [ total_sessions |-> Len(analyzed_sessions),
              valid_sessions |-> Len(valid_sessions),
              invalid_sessions |-> Len(analyzed_sessions) - Len(valid_sessions),
              total_duration_minutes |-> Total([i \in V |-> duration(i)]),
              total_user_messages |-> Total([i \in V |-> valid_sessions[i].statistics.user_messages]),
              total_tool_calls |-> Total([i \in V |-> tool_count(i)]),
              total_files_touched |-> Total([i \in V |-> files_count(i)]) ],
          by_project |->
            [ name \in { short(i) : i \in V } |->
                [ sessions |-> Len(of_project(name)),
                  duration |-> Total([i \in 1..Len(of_project(name)) |->
                                  OrElse(of_project(name)[i].metadata.duration_minutes, 0)]),
                  tool_calls |-> Total([i \in 1..Len(of_project(name)) |->
                                  of_project(name)[i].statistics.tool_call_count]),
                  completed |-> Len(SelectSeq(of_project(name),
                                  LAMBDA v : v.task_analysis.likely_completed)),
                  files_touched |-> Total([i \in 1..Len(of_project(name)) |->
                                  of_project(name)[i].quality_assessment.files_touched_count]) ] ],
          by_task_type |->
            [ t \in { valid_sessions[i].task_analysis.task_type : i \in V } |->
                Len(SelectSeq(valid_sessions, LAMBDA v : v.task_analysis.task_type = t)) ],
          by_outcome |->
            [ o \in { report_outcome(valid_sessions[i]) : i \in V } |->
                Len(SelectSeq(valid_sessions, LAMBDA v : report_outcome(v) = o)) ],
          by_session_type |-> [ work |-> type_tally("work"), lookup |-> type_tally("lookup") ],
          sessions_completed |-> Len(SelectSeq(valid_sessions,
                                     LAMBDA v : v.task_analysis.likely_completed)),
          sessions_with_edits |-> Len(SelectSeq(valid_sessions,
                                     LAMBDA v : HasEdits(v.statistics.tools_used))),
          sessions_with_tests |-> Len(SelectSeq(valid_sessions, has_tests)) ]

MaxSessions == 3

\* an analysed session, by the fields the report reads
Analysed(project, duration, user_msgs, tool_calls, tools_used, task_type, outcome, done, files) ==
    [ project |-> project,
      metadata |-> [ duration_minutes |-> duration ],
      statistics |-> [ user_messages |-> user_msgs, tool_call_count |-> tool_calls,
                       tools_used |-> tools_used ],
      task_analysis |-> [ task_type |-> task_type, outcome |-> outcome,
                          likely_completed |-> done ],
      quality_assessment |-> [ files_touched_count |-> files ] ]

\* four valid sessions; a null duration, a negative one and no user message
AnalysedPool ==
    { Analysed("team/alpha", Some(30), 2, 4, {"Read", "Grep"}, "lookup", "lookup_complete", TRUE, 0),
      Analysed("alpha", Some(60), 1, 12, {"Read", "Edit"}, "bug_fix", "completed", TRUE, 2),
      Analysed("beta", Some(0), 3, 25, {"Bash"}, "general", "unclear", FALSE, 1),
      Analysed("gamma", Some(110), 1, 25, {"Read", "Write"}, "feature", "abandoned", FALSE, 4),
      Analysed("beta", None, 2, 12, {"Edit"}, "bug_fix", "completed", TRUE, 2),
      Analysed("alpha", Some(-10), 2, 4, {"Read"}, "lookup", "lookup_complete", TRUE, 1),
      Analysed("delta", Some(30), 0, 4, {"Read"}, "docs", "unclear", FALSE, 3),
      Analysed("gamma", Some(60), 2, 12, {"Bash"}, "testing", "completed", TRUE, 0)
        @@ [ task_context |-> [ commands_sample |-> <<"npm test">> ] ],
      Analysed("beta", Some(30), 1, 4, {"Read"}, "general", "", FALSE, 0) }

ReportArgs == [ analyzed_sessions : SeqsUpTo(AnalysedPool, MaxSessions) ]

InitReport ==
    /\ pc = "call"
    /\ args \in ReportArgs
    /\ ret = None
    /\ session = None
    /\ analysis = None

CallGenerateAggregateReport ==
    /\ pc = "call"
    /\ ret' = generate_aggregate_report(args.analyzed_sessions)
    /\ pc' = "returned"
    /\ UNCHANGED <<args, session, analysis>>

NextReport == CallGenerateAggregateReport

SpecReport == InitReport /\ [][NextReport]_vars

(***************************************************************************)
(* The loop of main over a batch of sessions, in one interpreter process.  *)
(* session is the list of loaded records, ret the list analyzed_sessions,  *)
(* analysis the result kept for each position and the positions whose      *)
(* analysis raised.  args.order is the order in which the positions are    *)
(* taken; args.hash_order is the order in which this process walks each    *)
(* set of topics.                                                          *)
(***************************************************************************)
MaxBatch == 3

SessionRecord(duration, user_msgs, prompts, commands, issues) ==
    [ project |-> "team/alpha",
      metadata |-> [ duration_minutes |-> duration, outcome |-> None ],
      statistics |-> [ user_messages |-> user_msgs, tool_call_count |-> 25,
                       tools_used |-> {"Read", "Edit", "Bash"}, total_turns |-> 4 ],
      task_context |-> [ initial_prompts |-> prompts,
                         commands_sample |-> commands,
                         files_touched |-> <<"a.py">> ],
      original |-> [ task_type |-> None, issues |-> issues,
                     successes |-> <<>>, key_topics |-> <<>> ] ]

BatchRecord(duration, prompts, issues) ==
    SessionRecord(duration, 2, prompts, <<"npm test">>, issues)

BatchPool ==
    { BatchRecord(Some(30), <<"Fix the failing test">>, <<>>),
      BatchRecord(Some(110), <<"run pytest">>, <<>>),
      BatchRecord(None, <<"run pytest">>, <<>>) }

\* sessions with and without a test command, valid ones and two that the
\* report calls invalid (null duration, no user message), one that raises
PipelinePool ==
    { SessionRecord(Some(30), 2, <<"Fix the failing test">>, <<"npm test">>, <<>>),
      SessionRecord(Some(110), 1, <<"run pytest">>, <<>>, <<>>),
      SessionRecord(Some(30), 0, <<"run pytest">>, <<"npm test">>, <<>>),
      SessionRecord(None, 2, <<"Fix the failing test">>, <<"npm test">>, <<"ran out of time">>),
      SessionRecord(None, 2, <<"run pytest">>, <<>>, <<>>) }

BatchTopicSets == { FoundTopics(r.task_context.initial_prompts) : r \in BatchPool }

\* one walk order for each set of topics, fixed for the life of the process
HashOrders == { h \in [BatchTopicSets -> UNION { Arrangements(S) : S \in BatchTopicSets }] :
                  \A S \in BatchTopicSets : h[S] \in Arrangements(S) }

\* analyze_session in a process that walks the topic sets as hash_order says
analyze_session_in(s, hash_order) ==
    LET found == hash_order[FoundTopics(s.task_context.initial_prompts)]
        topics == IF Len(s.original.key_topics) > 0 THEN s.original.key_topics
                  ELSE SubSeq(found, 1, MinOf(10, Len(found)))
    IN  [ analyze_session(s) EXCEPT !.task_analysis = @ @@ [key_topics |-> topics],
                                    !.quality_assessment = @ @@ [successes |-> successes_of(s)] ]
        @@ [ project |-> s.project,
             metadata |-> s.metadata,
             statistics |-> s.statistics,
             raw_context |->
               [ sample_commands |->
                   SubSeq(s.task_context.commands_sample, 1,
                          MinOf(5, Len(s.task_context.commands_sample))) ] ]

Processed == Len(ret) + Cardinality(analysis.failed)

InitBatch ==
    /\ pc = "loop"
    /\ session \in SeqsUpTo(BatchPool, MaxBatch)
    /\ args \in [ order : Arrangements(1..Len(session)), hash_order : HashOrders ]
    /\ analysis = [ results |-> [i \in 1..Len(session) |-> None], failed |-> {},
                    report |-> None ]
    /\ ret = <<>>

\* the same loop on the list as loaded, taken in its own order
InitPipeline ==
    /\ pc = "loop"
    /\ session \in SeqsUpTo(PipelinePool, MaxBatch)
    /\ args \in [ order : { [i \in 1..Len(session) |-> i] }, hash_order : HashOrders ]
    /\ analysis = [ results |-> [i \in 1..Len(session) |-> None], failed |-> {},
                    report |-> None ]
    /\ ret = <<>>

\* analyzed = analyze_session(session); analyzed_sessions.append(analyzed)
AnalyzeNext ==
    /\ pc = "loop"
    /\ Processed < Len(session)
    /\ LET i == args.order[Processed + 1]
       IN  /\ ~analyze_session_raises(session[i])
           /\ ret' = Append(ret, analyze_session_in(session[i], args.hash_order))
           /\ analysis' = [analysis EXCEPT !.results[i] = Some(ret'[Len(ret')])]
    /\ UNCHANGED <<pc, session, args>>

\* except Exception: the warning is printed and the loop goes on
AnalyzeNextRaises ==
    /\ pc = "loop"
    /\ Processed < Len(session)
    /\ LET i == args.order[Processed + 1]
       IN  /\ analyze_session_raises(session[i])
           /\ analysis' = [analysis EXCEPT !.failed = @ \cup {i}]
    /\ UNCHANGED <<pc, session, args, ret>>

\* if not analyzed_sessions: print the error and return
NoSessionAnalyzed ==
    /\ pc = "loop"
    /\ Processed = Len(session)
    /\ Len(ret) = 0
    /\ pc' = "done"
    /\ UNCHANGED <<session, args, analysis, ret>>

\* report = generate_aggregate_report(analyzed_sessions)
GenerateReport ==
    /\ pc = "loop"
    /\ Processed = Len(session)
    /\ Len(ret) > 0
    /\ analysis' = [analysis EXCEPT !.report = Some(generate_aggregate_report(ret))]
    /\ pc' = "done"
    /\ UNCHANGED <<session, args, ret>>

NextBatch == AnalyzeNext \/ AnalyzeNextRaises \/ NoSessionAnalyzed \/ GenerateReport

SpecBatch == InitBatch /\ [][NextBatch]_vars

SpecPipeline == InitPipeline /\ [][NextBatch]_vars

(***************************************************************************)
(* Properties                                                              *)
(***************************************************************************)
Returned == pc = "returned"

Elements(q) == { q[i] : i \in 1..Len(q) }

FreshPath == ~Truthy(session.metadata.outcome)

OutcomeLabels ==
    { "completed", "completed_with_issues", "partially_completed",
      "exploration_complete", "lookup_complete", "abandoned", "blocked",
      "unclear" }

\* C1: a record without a prior outcome (null or empty) is always given one
\* of the eight outcome labels.
C1_FreshOutcomeIsOneOfEight ==
    (Returned /\ FreshPath) => analysis.task_analysis.outcome \in OutcomeLabels

C1_Witness ==
    /\ Returned
    /\ session.metadata.outcome = Some("")
    /\ analysis.task_analysis.outcome = "blocked"

\* The conditions of the rungs a-g, read off the analysed session.
RungHolds ==
    LET a == analysis
        sigs == a.completion_analysis.failure_signals
        task_type == a.task_analysis.task_type
        tools_used == session.statistics.tools_used
        user_msgs == session.statistics.user_messages
        duration == OrElse(session.metadata.duration_minutes, 0)
        session_type == classify_session_type(duration,
                            session.statistics.tool_call_count,
                            HasEdits(tools_used), tools_used)
        frustrated == HasSignal(sigs, {"user_frustration"})
    IN  << a.completion_analysis.confidence_score >= 60,
           task_type = "exploration" /\ HasReads(tools_used) /\ user_msgs > 1,
           /\ session_type = "lookup" \/ task_type = "lookup"
           /\ HasReads(tools_used) /\ user_msgs >= 1 /\ ~frustrated,
           HasSignal(sigs, {"quick_abandonment"}) \/ frustrated,
           a.completion_analysis.completion_type = "partially_completed",
           HasSignal(sigs, {"error_in_commands", "failed_git_commit"}),
           TRUE >>

RungLabel ==
    << IF Len(analysis.quality_assessment.issues) > 0
       THEN "completed_with_issues" ELSE "completed",
       "exploration_complete",
       "lookup_complete",
       "abandoned",
       "partially_completed",
       IF /\ OrElse(session.metadata.duration_minutes, 0) > Minutes(10)
          /\ session.statistics.tool_call_count > 20
       THEN "blocked" ELSE "partially_completed",
       "unclear" >>

FirstRung == CHOOSE r \in 1..7 : RungHolds[r] /\ \A q \in 1..(r - 1) : ~RungHolds[q]

\* C2: without a prior outcome, the outcome is the label of the first rung
\* of the ladder a-g whose condition holds.
C2_FirstRungDecides ==
    (Returned /\ FreshPath) => analysis.task_analysis.outcome = RungLabel[FirstRung]

\* rung b holds together with rung d, and rung b decides
C2_Witness ==
    /\ Returned /\ FreshPath
    /\ FirstRung = 2
    /\ RungHolds[4]
    /\ analysis.task_analysis.outcome = "exploration_complete"

\* C3: likely_completed is true exactly when the score reaches 60 or the
\* final outcome is lookup_complete or exploration_complete, with or
\* without a prior outcome.
C3_LikelyCompleted ==
    Returned =>
        (analysis.task_analysis.likely_completed
           <=> \/ analysis.completion_analysis.confidence_score >= 60
               \/ analysis.task_analysis.outcome
                    \in {"lookup_complete", "exploration_complete"})

\* a prior outcome passed through makes likely_completed true below 60
C3_Witness ==
    /\ Returned
    /\ session.metadata.outcome = Some("lookup_complete")
    /\ analysis.completion_analysis.confidence_score < 60
    /\ analysis.task_analysis.likely_completed

\* C4: the score returned by calculate_completion_confidence always lies
\* in 0..100, whatever signals fire.
C4_ScoreInRange == Returned => ret.score \in 0..100

RECURSIVE SumDeltasFrom(_, _)
SumDeltasFrom(signals, i) ==
    IF i > Len(signals) THEN 0 ELSE signals[i][2] + SumDeltasFrom(signals, i + 1)

SumDeltas(signals) == SumDeltasFrom(signals, 1)

RawScore ==
    50 + SumDeltas(ret.positive_signals) + SumDeltas(ret.negative_signals)

\* the deltas of a call add up to more than 100 and the score is 100
C4_Witness == Returned /\ RawScore > 100 /\ ret.score = 100

\* the deltas of a call add up to less than 0 and the score is 0
C4_WitnessLow == Returned /\ RawScore < 0 /\ ret.score = 0

CategoryOrder ==
    << "bug_fix", "testing", "config", "review", "exploration", "debug",
       "refactor", "feature", "update", "lookup" >>

CategoryWords ==
    << bug_fix_words, testing_words, config_words, review_words,
       exploration_words, debug_words, refactor_words, feature_words,
       update_words, lookup_words >>

\* the categories with a keyword occurring in the joined, lowercased prompts
MatchingCategories(prompts) ==
    { c \in 1..10 : AnyIn(CategoryWords[c], Lower(Join(prompts, " "))) }

MatchingMemo == [ps \in PromptLists |-> MatchingCategories(ps)]

Matching == MatchingMemo[args.prompts]

C5_WitnessExploration ==
    Returned /\ {5, 6} \subseteq Matching /\ ret = "exploration"

LookupShape ==
    /\ args.duration # None
    /\ args.duration[1] < Minutes(5)
    /\ args.has_edits # Some(TRUE)
    /\ OrElse(args.tool_calls, 0) < 10

\* C6: with no keyword match the result is "lookup" for a short, edit-free
\* session of fewer than 10 tool calls and "general" otherwise; the result
\* is always one of the eleven task types.
C6_FallbackAndRange ==
    Returned =>
        /\ ret \in TaskTypes
        /\ Matching = {} => ret = (IF LookupShape THEN "lookup" ELSE "general")

\* no keyword, a duration of exactly 5 minutes: general
C6_Witness ==
    /\ Returned /\ Matching = {}
    /\ args.duration = Some(50) /\ args.has_edits = Some(FALSE)
    /\ args.tool_calls = Some(4)
    /\ ret = "general"

C6_WitnessLookup == Returned /\ Matching = {} /\ LookupShape /\ ret = "lookup"

HighSeverity == \E sig \in Elements(args.failure_signals) : sig.severity >= 2

CommandsRanTest == \E c \in Elements(args.commands) : IsTestCommand(c)

\* The criterion of the rule table for the task type of the call.
TableCriterion ==
    LET t == args.task_type
        commit == args.git_ops.has_commit
        push == args.git_ops.has_push
    IN  CASE t = "bug_fix" -> args.has_edits /\ (CommandsRanTest \/ commit)
          [] t = "feature" -> args.has_edits /\ args.files_touched > 0
          [] t = "refactor" -> args.has_edits /\ args.files_touched > 1
          [] t = "debug" -> args.has_reads /\ args.duration > Minutes(5)
                            /\ args.user_msgs > 1
          [] t = "testing" -> CommandsRanTest
          [] t = "config" -> args.has_edits \/ "Bash" \in args.tools_used
          [] t = "exploration" -> args.has_reads /\ args.user_msgs > 1
          [] OTHER -> args.has_edits
                      \/ (args.files_touched > 0 /\ (commit \/ push))

\* C7 as stated: for feature, completed iff has_edits and files_touched > 0;
\* for refactor, iff has_edits and files_touched > 1.
C7_AsStated ==
    Returned =>
        /\ args.task_type = "feature" =>
             (ret.completed <=> (args.has_edits /\ args.files_touched > 0))
        /\ args.task_type = "refactor" =>
             (ret.completed <=> (args.has_edits /\ args.files_touched > 1))

\* C7: for feature, completed iff has_edits and files_touched > 0 and no
\* failure signal has severity >= 2; for refactor, iff has_edits and
\* files_touched > 1 and no failure signal has severity >= 2.
C7_FeatureAndRefactor ==
    Returned =>
        /\ args.task_type = "feature" =>
             (ret.completed <=> (args.has_edits /\ args.files_touched > 0
                                 /\ ~HighSeverity))
        /\ args.task_type = "refactor" =>
             (ret.completed <=> (args.has_edits /\ args.files_touched > 1
                                 /\ ~HighSeverity))

\* refactor with edits and exactly one file touched is not completed
C7_Witness ==
    /\ Returned /\ args.task_type = "refactor"
    /\ args.has_edits /\ args.files_touched = 1 /\ ~HighSeverity
    /\ ~ret.completed

C7_WitnessFeature ==
    /\ Returned /\ args.task_type = "feature"
    /\ args.has_edits /\ args.files_touched = 1 /\ ~HighSeverity
    /\ ret.completed

\* C8: for every task type, completed is true exactly when the criterion of
\* the rule table holds and no failure signal has severity >= 2.
C8_RuleTable == Returned => (ret.completed <=> (TableCriterion /\ ~HighSeverity))

\* debug at exactly 5 minutes, with reads and two user messages: not completed
C8_Witness ==
    /\ Returned /\ args.task_type = "debug"
    /\ args.has_reads /\ args.user_msgs = 2 /\ args.duration = Minutes(5)
    /\ ~HighSeverity
    /\ ~ret.completed

C8_WitnessUnrecognised ==
    /\ Returned /\ args.task_type = "docs"
    /\ ~args.has_edits /\ args.files_touched > 0 /\ args.git_ops.has_push
    /\ ~HighSeverity
    /\ ret.completed

Flagged == "failure_signals_detected" \in Elements(ret.criteria_missing)

\* C9: completed is never true with a failure signal of severity >= 2, and
\* "failure_signals_detected" is in criteria_missing (as its last entry)
\* exactly when the type-specific verdict was true and such a signal exists.
C9_HighSeverityOverrides ==
    Returned =>
        /\ HighSeverity => ~ret.completed
        /\ Flagged <=> (TableCriterion /\ HighSeverity)
        /\ Flagged =>
             /\ ret.criteria_missing[Len(ret.criteria_missing)] = "failure_signals_detected"
             /\ \A i \in 1..(Len(ret.criteria_missing) - 1) :
                    ret.criteria_missing[i] # "failure_signals_detected"

\* the verdict of the rule table was true and a severity-2 signal undid it
C9_Witness ==
    /\ Returned /\ TableCriterion
    /\ args.failure_signals = << Signal("quick_abandonment", 2) >>
    /\ ~ret.completed /\ Flagged

\* C10: completion_type is "completed" iff completed; otherwise it is
\* "partially_completed" iff criteria_met is longer than criteria_missing
\* as returned, and "not_completed" in the remaining cases.
C10_CompletionType ==
    Returned =>
        ret.completion_type =
            (IF ret.completed THEN "completed"
             ELSE IF Len(ret.criteria_met) > Len(ret.criteria_missing)
                  THEN "partially_completed"
             ELSE "not_completed")

\* a downgraded verdict: two criteria met against the one appended entry
C10_Witness ==
    /\ Returned /\ Flagged
    /\ Len(ret.criteria_met) = 2 /\ Len(ret.criteria_missing) = 1
    /\ ret.completion_type = "partially_completed"

C10_WitnessTie ==
    /\ Returned /\ ~ret.completed
    /\ Len(ret.criteria_met) = 1 /\ Len(ret.criteria_missing) = 1
    /\ ret.completion_type = "not_completed"

\* the commands of the call that hold the letters "git" in any case
MentionsGit == { i \in 1..Len(args.commands) : Contains(Lower(args.commands[i]), "git") }

\* C11: classify_git_operations returns read_only = true only if at least
\* one git command was collected; with no git command, an empty command
\* list included, read_only is false.
C11_ReadOnlyNeedsGitCommand ==
    Returned =>
        /\ ret.read_only => (Len(ret.git_commands) > 0 /\ MentionsGit # {})
        /\ MentionsGit = {} => (~ret.read_only /\ ret.git_commands = <<>>)

\* commands were given, none of them a git command: read_only is false
C11_Witness ==
    /\ Returned /\ args.commands # <<>> /\ MentionsGit = {}
    /\ ~ret.read_only

C11_WitnessEmpty == Returned /\ args.commands = <<>> /\ ~ret.read_only

C11_WitnessReadOnly ==
    Returned /\ ret.read_only /\ Len(ret.git_commands) = 2

\* The scenario of C12: 3 minutes, 4 tool calls, Read and Grep only, no
\* keyword in the prompts, a user message, no frustration, no prior outcome.
LookupScenario ==
    /\ Returned /\ FreshPath
    /\ session.metadata.duration_minutes = Some(Minutes(3))
    /\ session.statistics.tool_call_count = 4
    /\ session.statistics.tools_used = {"Read", "Grep"}
    /\ MatchingMemo[session.task_context.initial_prompts] = {}
    /\ session.statistics.user_messages >= 1
    /\ ~HasSignal(analysis.completion_analysis.failure_signals, {"user_frustration"})

ScenarioSessionType ==
    classify_session_type(session.metadata.duration_minutes[1],
        session.statistics.tool_call_count,
        HasEdits(session.statistics.tools_used), session.statistics.tools_used)

C12_WitnessCompleted ==
    /\ LookupScenario
    /\ session.task_context.files_touched = <<"a.py">>
    /\ session.task_context.commands_sample = <<>>
    /\ analysis.task_analysis.task_type = "lookup"
    /\ analysis.task_analysis.outcome = "completed"

\* the signals of one type in the list returned by detect_failure_signals
Emitted(type) == SelectSeq(ret, LAMBDA sig : sig.type = type)

\* C13: detect_failure_signals emits a quick_abandonment signal, of severity
\* 2, exactly when the duration (0 when null) is below 2 minutes and the
\* tool-call count is above 5.
C13_QuickAbandonment ==
    Returned =>
        /\ Len(Emitted("quick_abandonment")) > 0
             <=> /\ OrElse(session.metadata.duration_minutes, 0) < Minutes(2)
                 /\ session.statistics.tool_call_count > 5
        /\ Len(Emitted("quick_abandonment")) <= 1
        /\ \A sig \in Elements(Emitted("quick_abandonment")) : sig.severity = 2

\* 1.5 minutes, 8 tool calls, no edits: the signal is emitted
C13_Witness ==
    /\ Returned
    /\ session.metadata.duration_minutes = Some(15)
    /\ session.statistics.tool_call_count = 8
    /\ ~HasEdits(session.statistics.tools_used)
    /\ Emitted("quick_abandonment") = << Signal("quick_abandonment", 2) >>

\* a null duration counts as 0
C13_WitnessNull ==
    /\ Returned
    /\ session.metadata.duration_minutes = None
    /\ session.statistics.tool_call_count = 6
    /\ Len(Emitted("quick_abandonment")) = 1

\* exactly 2 minutes, or exactly 5 tool calls: no signal
C13_WitnessLimits ==
    /\ Returned
    /\ \/ session.metadata.duration_minutes = Some(20)
          /\ session.statistics.tool_call_count = 16
       \/ session.metadata.duration_minutes = Some(0)
          /\ session.statistics.tool_call_count = 5
    /\ Len(Emitted("quick_abandonment")) = 0

\* a command of the session is a git commit that holds "error", "fail" or
\* "abort"
FailedCommitSession ==
    /\ Returned
    /\ \E c \in Elements(session.task_context.commands_sample) :
         /\ re_search(<<WB, Lit("git"), WsPlus, Lit("commit"), WB>>, Lower(c))
         /\ \E w \in {"error", "fail", "abort"} : Contains(Lower(c), w)

SignalNames(signals) == { signals[i][1] : i \in 1..Len(signals) }

\* C14: with a failed git commit among the commands, has_commit and
\* has_failed_commit are true, the scorer records and applies failed_commit
\* -15 and no successful_commit +20, a failed_git_commit signal of severity
\* 2 is emitted, and a bug_fix task is not completed, edits or not.
C14_FailedCommit ==
    FailedCommitSession =>
        LET c == analysis.completion_analysis
        IN  /\ c.git_operations.has_commit
            /\ c.git_operations.has_failed_commit
            /\ <<"failed_commit", -15>> \in Elements(c.negative_signals)
            /\ "successful_commit" \notin SignalNames(c.positive_signals)
            /\ c.confidence_score
                 = MaxOf(0, MinOf(100, 50 + SumDeltas(c.positive_signals)
                                          + SumDeltas(c.negative_signals)))
            /\ Signal("failed_git_commit", 2) \in Elements(c.failure_signals)
            /\ analysis.task_analysis.task_type = "bug_fix"
                 => c.completion_type # "completed"

\* a bug_fix session with edits whose only command is the failed commit
C14_Witness ==
    /\ FailedCommitSession
    /\ session.task_context.commands_sample = <<"git commit -m 'fix' error: hook failed">>
    /\ analysis.task_analysis.task_type = "bug_fix"
    /\ HasEdits(session.statistics.tools_used)
    /\ "has_verification" \in Elements(analysis.completion_analysis.criteria_met)
    /\ analysis.completion_analysis.completion_type # "completed"

\* a bug_fix call with edits and a command matching \bnpm\s+test\b
VerifiedBugFix ==
    /\ Returned
    /\ args.task_type = "bug_fix"
    /\ args.has_edits
    /\ \E c \in Elements(args.commands) :
         re_search(<<WB, Lit("npm"), WsPlus, Lit("test"), WB>>, Lower(c))

\* C15 as stated: bug_fix with edits and a test command gives completed =
\* true and criteria_met = [has_edits, has_verification], whatever the
\* remaining inputs are.
C15_AsStated ==
    VerifiedBugFix =>
        /\ ret.completed
        /\ ret.criteria_met = <<"has_edits", "has_verification">>

\* C15: bug_fix with edits and a test command gives criteria_met =
\* [has_edits, has_verification]; completed is true exactly when no failure
\* signal has severity >= 2, and is false with failure_signals_detected as
\* the only missing criterion otherwise.
C15_BugFixVerified ==
    VerifiedBugFix =>
        /\ ret.criteria_met = <<"has_edits", "has_verification">>
        /\ ret.completed <=> ~HighSeverity
        /\ ret.criteria_missing
             = (IF HighSeverity THEN <<"failure_signals_detected">> ELSE <<>>)

\* no commit, signals of severity 1 only: completed
C15_Witness ==
    /\ VerifiedBugFix
    /\ ~args.git_ops.has_commit
    /\ args.failure_signals # <<>> /\ ~HighSeverity
    /\ ret.completed
    /\ ret.completion_type = "completed"

\* the same call with a quick_abandonment signal: not completed
C15_WitnessDowngraded ==
    /\ VerifiedBugFix
    /\ args.failure_signals = << Signal("quick_abandonment", 2) >>
    /\ ~ret.completed

\* C16: two runs of analyze_session on one session record return the same
\* result in every field, key_topics with its order included.
C16_Deterministic == pc = "second" => ret = analysis

\* two runs that differ in the order of key_topics only
C16_WitnessOrder ==
    /\ pc = "second"
    /\ analysis.task_analysis.key_topics = <<"test", "fix">>
    /\ ret.task_analysis.key_topics = <<"fix", "test">>

\* C17: classify_session_type returns "lookup" exactly when has_edits is
\* false, the duration is below 5 minutes, there are fewer than 10 tool
\* calls and none of Edit, Write, NotebookEdit was used; otherwise "work".
C17_SessionType ==
    Returned =>
        ret = (IF /\ ~args.has_edits
                  /\ args.duration_minutes < Minutes(5)
                  /\ args.tool_calls < 10
                  /\ "Edit" \notin args.tools_used
                  /\ "Write" \notin args.tools_used
                  /\ "NotebookEdit" \notin args.tools_used
               THEN "lookup" ELSE "work")

\* short, few tool calls, has_edits false, but NotebookEdit was used: work
C17_Witness ==
    /\ Returned
    /\ ~args.has_edits /\ args.duration_minutes = 49 /\ args.tool_calls = 9
    /\ args.tools_used = {"Read", "NotebookEdit"}
    /\ ret = "work"

C17_WitnessLookup ==
    /\ Returned
    /\ ~args.has_edits /\ args.duration_minutes = 49 /\ args.tool_calls = 9
    /\ args.tools_used = {"Read", "Bash"}
    /\ ret = "lookup"

C17_WitnessLimits ==
    /\ Returned /\ ~args.has_edits /\ args.tools_used = {"Read"}
    /\ \/ args.duration_minutes = Minutes(5) /\ args.tool_calls = 0
       \/ args.duration_minutes = 0 /\ args.tool_calls = 10
    /\ ret = "work"

PriorPath == Returned /\ Truthy(session.metadata.outcome)

\* C18: with a prior outcome the outcome is read off the prior value, the
\* issues, the abandonment signals and the evaluator's verdict, never off
\* the score: "completed" splits on the issues, "had_issues" gives
\* abandoned, completed_with_issues or partially_completed, and any other
\* value is handed on unchanged.
C18_PriorOutcomeRemap ==
    PriorPath =>
        LET prior == session.metadata.outcome[1]
            issues == analysis.quality_assessment.issues
            sigs == analysis.completion_analysis.failure_signals
            gave_up == \E sig \in Elements(sigs) :
                          sig.type \in {"quick_abandonment", "user_frustration"}
            completed == analysis.completion_analysis.completion_type = "completed"
        IN  analysis.task_analysis.outcome
              = CASE prior = "completed" ->
                       IF issues # <<>> THEN "completed_with_issues" ELSE "completed"
                  [] prior = "had_issues" ->
                       IF gave_up THEN "abandoned"
                       ELSE IF completed THEN "completed_with_issues"
                       ELSE "partially_completed"
                  [] OTHER -> prior

\* prior had_issues, a score of 60 or more, a frustrated prompt: abandoned
C18_Witness ==
    /\ PriorPath
    /\ session.metadata.outcome = Some("had_issues")
    /\ analysis.completion_analysis.confidence_score >= 60
    /\ ~HasSignal(analysis.completion_analysis.failure_signals, {"quick_abandonment"})
    /\ analysis.task_analysis.outcome = "abandoned"

\* prior completed, a score below 60, no issues: completed
C18_WitnessCompleted ==
    /\ PriorPath
    /\ session.metadata.outcome = Some("completed")
    /\ analysis.completion_analysis.confidence_score < 60
    /\ analysis.task_analysis.outcome = "completed"

\* prior had_issues, a score of 60 or more, verdict false: partially_completed
C18_WitnessPartial ==
    /\ PriorPath
    /\ session.metadata.outcome = Some("had_issues")
    /\ analysis.completion_analysis.confidence_score >= 60
    /\ analysis.task_analysis.outcome = "partially_completed"

\* prior had_issues, verdict true, no issue in the record: completed_with_issues
C18_WitnessWithIssues ==
    /\ PriorPath
    /\ session.metadata.outcome = Some("had_issues")
    /\ analysis.quality_assessment.issues = <<>>
    /\ analysis.task_analysis.outcome = "completed_with_issues"

\* a prior value outside the taxonomy is handed on
C18_WitnessOther ==
    /\ PriorPath
    /\ session.metadata.outcome = Some("stalled")
    /\ analysis.task_analysis.outcome = "stalled"

\* the first run has returned; its result is in analysis
FirstResult == pc \in {"first", "second"}

TaskSpecificSignals ==
    { "sufficient_work_time", "exploration_time", "exploration_reads_ok",
      "debug_investigation" }

\* C19: a non-empty task_type, issues, successes or key_topics of the record
\* is reported as it is: the task type, even one outside the classifier's
\* labels, is the one the evaluator and the scorer work with, and the issues
\* are the record's issues with no detected issue added; an absent or empty
\* field is derived by the classifier or detector.
C19_PrecomputedFieldsWin ==
    FirstResult =>
        LET o == session.original
            r == analysis
            tools_used == session.statistics.tools_used
        IN  /\ r.task_analysis.task_type
                 = (IF Truthy(o.task_type) THEN o.task_type[1]
                    ELSE classify_task_type(session.task_context.initial_prompts,
                             session.task_context.commands_sample, tools_used,
                             Some(OrElse(session.metadata.duration_minutes, 0)),
                             Some(session.statistics.tool_call_count),
                             Some(HasEdits(tools_used))))
            /\ o.task_type = Some("docs") =>
                 /\ Elements(r.completion_analysis.criteria_met)
                      \subseteq {"has_edits", "files_touched", "git_changes"}
                 /\ r.completion_analysis.criteria_missing
                      \in { <<>>, <<"failure_signals_detected">> }
                 /\ SignalNames(r.completion_analysis.positive_signals)
                      \cap TaskSpecificSignals = {}
            /\ IF o.issues # <<>>
               THEN r.quality_assessment.issues
                      = [i \in 1..Len(o.issues) |->
                           [type |-> "reported_issue", description |-> o.issues[i]]]
               ELSE \A issue \in Elements(r.quality_assessment.issues) :
                      issue.type \in {"command_error", "high_tool_usage", "rapid_interactions"}
            /\ IF o.successes # <<>>
               THEN r.quality_assessment.successes
                      = [i \in 1..Len(o.successes) |->
                           [type |-> "reported_success", description |-> o.successes[i]]]
               ELSE \A success \in Elements(r.quality_assessment.successes) :
                      success.type \in {"code_changes", "build_commands", "git_operations"}
            /\ IF o.key_topics # <<>>
               THEN r.task_analysis.key_topics = o.key_topics
               ELSE Elements(r.task_analysis.key_topics)
                      = FoundTopics(session.task_context.initial_prompts)

\* a record typed "docs" whose prompt the classifier would call bug_fix, and
\* whose own issue stands where the detector would report high tool usage
C19_Witness ==
    /\ FirstResult
    /\ session.original.task_type = Some("docs")
    /\ session.original.issues = <<"build was flaky">>
    /\ session.task_context.initial_prompts = <<"Fix the failing test">>
    /\ session.metadata.duration_minutes = Some(110)
    /\ session.statistics.user_messages = 1
    /\ analysis.task_analysis.task_type = "docs"
    /\ Len(analysis.quality_assessment.issues) = 1

\* no field of its own: the classifier and the detectors are used
C19_WitnessDerived ==
    /\ FirstResult
    /\ session.original = [task_type |-> Some(""), issues |-> <<>>,
                            successes |-> <<>>, key_topics |-> <<>>]
    /\ session.task_context.initial_prompts = <<"Fix the failing test">>
    /\ analysis.task_analysis.task_type = "bug_fix"
    /\ "sufficient_work_time" \in SignalNames(analysis.completion_analysis.positive_signals)
    /\ analysis.quality_assessment.issues = << [type |-> "high_tool_usage"] >>
    /\ analysis.quality_assessment.successes # <<>>

\* the positions of the sessions the claim calls valid: a duration that is
\* not null and not negative, and at least one user message
ValidPositions ==
    { i \in 1..Len(args.analyzed_sessions) :
        LET a == args.analyzed_sessions[i]
        IN  /\ a.metadata.duration_minutes # None
            /\ a.metadata.duration_minutes[1] >= 0
            /\ a.statistics.user_messages > 0 }

RECURSIVE SumAt(_, _)
SumAt(value, positions) ==
    IF positions = {} THEN 0
    ELSE LET i == CHOOSE j \in positions : TRUE
         IN  value[i] + SumAt(value, positions \ {i})

Tally(key) ==
    [ k \in { key[i] : i \in ValidPositions } |->
        Cardinality({ i \in ValidPositions : key[i] = k }) ]

\* C20: a session is valid exactly when its duration is not null and >= 0
\* and it has a user message; the report counts every session in
\* total_sessions, the others in invalid_sessions, and builds the summary
\* totals, by_project, by_task_type, by_outcome, by_session_type and
\* sessions_completed from the valid sessions alone.
C20_OnlyValidSessionsTallied ==
    Returned =>
        LET A == args.analyzed_sessions
            N == 1..Len(A)
        IN  /\ ret.summary.total_sessions = Len(A)
            /\ ret.summary.valid_sessions = Cardinality(ValidPositions)
            /\ ret.summary.invalid_sessions = Len(A) - Cardinality(ValidPositions)
            /\ ret.summary.total_duration_minutes
                 = SumAt([i \in N |-> OrElse(A[i].metadata.duration_minutes, 0)], ValidPositions)
            /\ ret.summary.total_user_messages
                 = SumAt([i \in N |-> A[i].statistics.user_messages], ValidPositions)
            /\ ret.summary.total_tool_calls
                 = SumAt([i \in N |-> A[i].statistics.tool_call_count], ValidPositions)
            /\ ret.summary.total_files_touched
                 = SumAt([i \in N |-> A[i].quality_assessment.files_touched_count], ValidPositions)
            /\ [ name \in DOMAIN ret.by_project |-> ret.by_project[name].sessions ]
                 = Tally([i \in N |-> project_short(A[i].project)])
            /\ ret.by_task_type = Tally([i \in N |-> A[i].task_analysis.task_type])
            /\ ret.by_outcome
                 = Tally([i \in N |-> IF A[i].task_analysis.outcome = "" THEN "unknown"
                                      ELSE A[i].task_analysis.outcome])
            /\ ret.by_session_type.work.count + ret.by_session_type.lookup.count
                 = Cardinality(ValidPositions)
            /\ ret.by_session_type.work.total_tool_calls
                 + ret.by_session_type.lookup.total_tool_calls
                 = SumAt([i \in N |-> A[i].statistics.tool_call_count], ValidPositions)
            /\ ret.sessions_completed
                 = Cardinality({ i \in ValidPositions : A[i].task_analysis.likely_completed })

\* one valid session between a session of null duration and one without a
\* user message, both marked completed or touching files
C20_Witness ==
    /\ Returned
    /\ Len(args.analyzed_sessions) = 3
    /\ ValidPositions = {2}
    /\ args.analyzed_sessions[1].metadata.duration_minutes = None
    /\ args.analyzed_sessions[1].task_analysis.likely_completed
    /\ args.analyzed_sessions[3].statistics.user_messages = 0
    /\ ret.summary.total_sessions = 3 /\ ret.summary.invalid_sessions = 2
    /\ DOMAIN ret.by_task_type = { args.analyzed_sessions[2].task_analysis.task_type }

\* a negative duration makes a session invalid, a duration of 0 does not
C20_WitnessDurations ==
    /\ Returned
    /\ Len(args.analyzed_sessions) = 2
    /\ args.analyzed_sessions[1].metadata.duration_minutes = Some(-10)
    /\ args.analyzed_sessions[2].metadata.duration_minutes = Some(0)
    /\ ret.summary.valid_sessions = 1
    /\ DOMAIN ret.by_project = {"beta"}

ErrorSignalPositions ==
    { i \in 1..Len(args.failure_signals) :
        args.failure_signals[i].type = "error_in_commands" }

\* the delta recorded under "errors_detected", 0 when none is recorded
ErrorsDetectedDelta ==
    LET at == { i \in 1..Len(ret.negative_signals) :
                  ret.negative_signals[i][1] = "errors_detected" }
    IN  IF at = {} THEN 0 ELSE ret.negative_signals[CHOOSE i \in at : TRUE][2]

\* C21 as stated: the error-in-commands penalty is min(20, 5 x the number of
\* error_in_commands signals), whatever severity the signals carry.
C21_AsStated ==
    Returned =>
        ErrorsDetectedDelta = 0 - MinOf(20, 5 * Cardinality(ErrorSignalPositions))

\* C21: the error-in-commands penalty is min(20, 5 x the sum of the
\* severities of the error_in_commands signals of the input), recorded once
\* as errors_detected when there is such a signal and not at all otherwise.
C21_ErrorPenalty ==
    Returned =>
        /\ ErrorsDetectedDelta
             = 0 - MinOf(20, 5 * SumAt([i \in 1..Len(args.failure_signals) |->
                                         args.failure_signals[i].severity],
                                      ErrorSignalPositions))
        /\ Cardinality({ i \in 1..Len(ret.negative_signals) :
                           ret.negative_signals[i][1] = "errors_detected" })
             = IF ErrorSignalPositions = {} THEN 0 ELSE 1

\* one signal of severity 3 costs 15 points
C21_Witness ==
    /\ Returned
    /\ Cardinality(ErrorSignalPositions) = 1
    /\ \E i \in ErrorSignalPositions : args.failure_signals[i].severity = 3
    /\ ErrorsDetectedDelta = -15

\* two signals of severities 3 and 2 reach the cap of 20
C21_WitnessCap ==
    /\ Returned
    /\ Cardinality(ErrorSignalPositions) = 2
    /\ ErrorsDetectedDelta = -20

\* C22: analyze_session returns a result, and never raises, for every
\* session record, a record with a null duration_minutes included (the
\* duration then counts as 0).
C22_NeverRaises == pc # "raised"

\* a record with a null duration and issues of its own is analysed, its
\* duration counting as 0
C22_WitnessNullAnalysed ==
    /\ pc = "returned"
    /\ session.metadata.duration_minutes = None
    /\ session.original.issues # <<>>
    /\ analysis.task_analysis.outcome \in OutcomeLabels

SignalTypes ==
    { "error_in_commands", "high_retry_ratio", "quick_abandonment",
      "read_without_edit", "failed_git_commit", "user_frustration",
      "no_tangible_output" }

ErrorCommandCount ==
    Cardinality({ i \in 1..Len(session.task_context.commands_sample) :
                    IsErrorCommand(session.task_context.commands_sample[i]) })

\* C23: the list returned by detect_failure_signals holds at most one signal
\* of each of the seven types and none of another type, every severity is
\* in 1..3, and the severity of error_in_commands is min(3, number of
\* commands matching an error pattern).
C23_SevenSignals ==
    Returned =>
        /\ \A i \in 1..Len(ret) :
              /\ ret[i].type \in SignalTypes
              /\ ret[i].severity \in 1..3
              /\ \A j \in 1..Len(ret) : ret[j].type = ret[i].type => j = i
        /\ Len(Emitted("error_in_commands")) > 0 <=> ErrorCommandCount > 0
        /\ \A sig \in Elements(Emitted("error_in_commands")) :
              sig.severity = MinOf(3, ErrorCommandCount)

\* four commands match an error pattern: severity 3
C23_Witness ==
    /\ Returned
    /\ ErrorCommandCount = 4
    /\ Emitted("error_in_commands") = << Signal("error_in_commands", 3) >>

\* two of three commands match: severity 2
C23_WitnessTwo ==
    /\ Returned
    /\ Len(session.task_context.commands_sample) = 3
    /\ ErrorCommandCount = 2
    /\ Emitted("error_in_commands") = << Signal("error_in_commands", 2) >>

\* several checks fire on one session, one signal each
C23_WitnessMany ==
    /\ Returned
    /\ Len(ret) >= 5
    /\ Cardinality({ ret[i].type : i \in 1..Len(ret) }) = Len(ret)

HasResult(i) == analysis.results[i] # None

\* First part of C24: in a batch, two positions that hold the same record get the same
\* result whatever was analysed between them and in whatever order the
\* positions are taken, and a record that stands alone in a batch gets the
\* result it gets in any other batch: the result is that of the record
\* analysed on its own in the same process.
C24_ResultOfOwnRecord ==
    \A i \in 1..Len(session) :
        HasResult(i) =>
            /\ \A j \in 1..Len(session) :
                  HasResult(j) /\ session[j] = session[i]
                      => analysis.results[j] = analysis.results[i]
            /\ analysis.results[i][1].quality_assessment.successes
                 = detect_successes(session[i])
            /\ analysis.results[i][1].task_analysis.key_topics
                 \in key_topics_of(session[i])
            /\ \E k \in 1..Len(ret) : ret[k] = analysis.results[i][1]

\* Second part of C24: a step of the loop leaves the loaded records, the walk
\* order of the process and the results already collected as they are.
C24_Unchanged ==
    [][ /\ session' = session
        /\ args' = args
        /\ \A i \in 1..Len(session) :
              HasResult(i) => analysis'.results[i] = analysis.results[i]
        /\ SubSeq(ret', 1, Len(ret)) = ret ]_vars

C25_ReadOnlyExcludesWrites ==
    Returned => ~(ret.read_only /\ (ret.has_commit \/ ret.has_push \/ ret.has_add))

\* one command string with a status and a commit: both flags are set
C25_WitnessChained ==
    /\ Returned
    /\ args.commands = <<"git status && git commit -m wip">>
    /\ ret.read_only /\ ret.has_commit /\ ret.commit_count = 1

Reported == pc = "done" /\ analysis.report # None

\* the positions of the analysed sessions that the report calls valid and
\* whose commands include a test-pattern command
TestedPositions ==
    { i \in 1..Len(session) :
        /\ HasResult(i)
        /\ is_valid_session(session[i])
        /\ \E k \in 1..Len(session[i].task_context.commands_sample) :
              AnyPattern(report_test_patterns,
                         Lower(session[i].task_context.commands_sample[k])) }

\* C26: in the report built from the results of analyze_session,
\* sessions_with_tests is the number of valid sessions whose commands
\* include a test-pattern command.
C26_SessionsWithTests ==
    Reported =>
        analysis.report[1].sessions_with_tests = Cardinality(TestedPositions)

\* a valid session ran npm test and its result records tests_ran, and the
\* report counts no session with tests
C26_WitnessNotCounted ==
    /\ Reported
    /\ \E i \in TestedPositions :
          <<"tests_ran", 15>>
              \in Elements(analysis.results[i][1].completion_analysis.positive_signals)
    /\ analysis.report[1].summary.valid_sessions >= 1
    /\ analysis.report[1].sessions_with_tests = 0

\* C27: the score is clamp(50 + the deltas of positive_signals + the deltas
\* of negative_signals, 0, 100); every positive delta is > 0, every negative
\* delta is < 0, and a signal is listed once, in one of the two lists.
C27_ScoreIsSumOfSignals ==
    Returned =>
        /\ ret.score = MaxOf(0, MinOf(100, RawScore))
        /\ \A i \in 1..Len(ret.positive_signals) : ret.positive_signals[i][2] > 0
        /\ \A i \in 1..Len(ret.negative_signals) : ret.negative_signals[i][2] < 0
        /\ SignalNames(ret.positive_signals) \cap SignalNames(ret.negative_signals) = {}
        /\ Cardinality(SignalNames(ret.positive_signals)) = Len(ret.positive_signals)
        /\ Cardinality(SignalNames(ret.negative_signals)) = Len(ret.negative_signals)

\* signals of both lists fire and the sum stays inside 0..100
C27_Witness ==
    /\ Returned
    /\ Len(ret.positive_signals) >= 3
    /\ Len(ret.negative_signals) >= 3
    /\ <<"errors_detected", -15>> \in Elements(ret.negative_signals)
    /\ RawScore \in 1..99
    /\ ret.score = RawScore

\* no signal fires: the score is the base score
C27_WitnessBase ==
    /\ Returned
    /\ ret.positive_signals = <<>> /\ ret.negative_signals = <<>>
    /\ ret.score = 50

\* successful_outcomes of the report, line 1550
successful_outcomes ==
    { "completed", "completed_with_issues", "exploration_complete", "lookup_complete" }

\* C28: for a session without a prior outcome, likely_completed is true
\* exactly when the outcome is one the report counts as successful.
C28_FreshSuccessAgrees ==
    Returned /\ FreshPath =>
        (analysis.task_analysis.likely_completed
           <=> analysis.task_analysis.outcome \in successful_outcomes)

\* below the threshold, an exploration is complete and counted completed
C28_Witness ==
    /\ Returned /\ FreshPath
    /\ analysis.completion_analysis.confidence_score < 60
    /\ analysis.task_analysis.outcome = "exploration_complete"
    /\ analysis.task_analysis.likely_completed

\* at or above the threshold the outcome is completed, with issues or not
C28_WitnessCompleted ==
    /\ Returned /\ FreshPath
    /\ analysis.completion_analysis.confidence_score >= 60
    /\ analysis.task_analysis.outcome = "completed_with_issues"
    /\ analysis.task_analysis.likely_completed

\* an abandoned session is not counted completed
C28_WitnessAbandoned ==
    /\ Returned /\ FreshPath
    /\ analysis.task_analysis.outcome = "abandoned"
    /\ ~analysis.task_analysis.likely_completed

\* the outcome "abandoned" was assigned by analyze_session: the record
\* brought no outcome, or the outcome had_issues
AssignedAbandoned ==
    /\ Returned
    /\ analysis.task_analysis.outcome = "abandoned"
    /\ FreshPath \/ session.metadata.outcome = Some("had_issues")

\* C29: when analyze_session assigns the outcome abandoned, the completion
\* evaluation of the session is not completed: its completion_type is not
\* "completed" and a quick_abandonment or user_frustration signal stands
\* among its failure signals.
C29_AbandonedNotCompleted ==
    AssignedAbandoned =>
        /\ analysis.completion_analysis.completion_type # "completed"
        /\ HasSignal(analysis.completion_analysis.failure_signals,
                     {"quick_abandonment", "user_frustration"})

\* the type-specific verdict was a pass, the abandonment signal took it back
C29_Witness ==
    /\ AssignedAbandoned /\ FreshPath
    /\ HasSignal(analysis.completion_analysis.failure_signals, {"quick_abandonment"})
    /\ "failure_signals_detected" \in Elements(analysis.completion_analysis.criteria_missing)
    /\ analysis.completion_analysis.completion_type # "completed"

\* the remap of had_issues to abandoned
C29_WitnessRemap ==
    /\ AssignedAbandoned
    /\ session.metadata.outcome = Some("had_issues")
    /\ "failure_signals_detected" \in Elements(analysis.completion_analysis.criteria_missing)

SumOfCounts(tally) == SumAt(tally, DOMAIN tally)

\* C30: the report counts each valid session once in each partition:
\* total_sessions = valid_sessions + invalid_sessions, the counts of
\* by_outcome and of by_task_type each add up to valid_sessions, so do
\* work.count and lookup.count, and sessions_completed <= valid_sessions.
C30_Partitions ==
    Returned =>
        /\ ret.summary.total_sessions
             = ret.summary.valid_sessions + ret.summary.invalid_sessions
        /\ SumOfCounts(ret.by_outcome) = ret.summary.valid_sessions
        /\ SumOfCounts(ret.by_task_type) = ret.summary.valid_sessions
        /\ ret.by_session_type.work.count + ret.by_session_type.lookup.count
             = ret.summary.valid_sessions
        /\ ret.sessions_completed <= ret.summary.valid_sessions

\* three valid sessions of two outcomes and two session types, one of them
\* of duration 0, not all completed
C30_Witness ==
    /\ Returned
    /\ ret.summary.valid_sessions = 3 /\ ret.summary.invalid_sessions = 0
    /\ Cardinality(DOMAIN ret.by_outcome) = 2
    /\ ret.by_session_type.work.count = 2 /\ ret.by_session_type.lookup.count = 1
    /\ \E i \in 1..3 : args.analyzed_sessions[i].metadata.duration_minutes = Some(0)
    /\ ret.sessions_completed \in 1..2

\* a session without an outcome label is counted under "unknown"
C30_WitnessUnknown ==
    /\ Returned
    /\ ret.summary.valid_sessions = 2 /\ ret.summary.invalid_sessions = 1
    /\ "unknown" \in DOMAIN ret.by_outcome
    /\ SumOfCounts(ret.by_outcome) = 2

====
